---- MODULE Spec2Model ----
(***************************************************************************)
(* igvm: the DRBD replication session (igvm/drbd.py).                      *)
(*                                                                         *)
(* Two DRBD objects, the primary (master_role = True, on the source        *)
(* hypervisor) and the secondary (on the destination hypervisor), are      *)
(* acquired as a nested pair of DRBD.start() scopes.  Every hv.run(),      *)
(* hv.put(), hv.suspend_vm() and hv.resume_vm() call is one step that      *)
(* either succeeds or fails; `trace` records the calls in issue order.     *)
(***************************************************************************)
EXTENDS Integers, Sequences, FiniteSets, TLC

VARIABLES
    pc,          \* per session: the statement the session is at
    host,        \* per session: the state of the session's hypervisor
    dev_minor,   \* per session: TRUE when self.dev_minor is cached
    exc,         \* per session: the call whose failure is propagating
    bodyRes,     \* per session: how the scope body ended
    stopCalls,   \* per session: how often stop() was entered
    trace,       \* the calls issued so far, in order
    wpc,         \* wait_for_sync: the statement it is at
    minor,       \* wait_for_sync: the value of self.dev_minor
    progressbar_found,
    show_progress,
    status,      \* wait_for_sync: the line the last poll took as the status line
    logged,      \* wait_for_sync: the line the last poll logged as progress bar
    proc,        \* wait_for_sync: the content of /proc/drbd the last poll read
    wExit,       \* wait_for_sync: why the polling loop was left
    gate,        \* wait_for_sync: the outcome of "drbdsetup wait-sync"
    blk,        \* sync_block_size: the call and the block sizes it reads and sets
    cl,         \* two sessions for one VM on one hypervisor: positions, the hypervisor, owners
    mig,        \* migration of the VM: plan position, inventory, where the VM is defined and runs
    cmp,        \* Host.__eq__ / __hash__: the two objects compared and the results
    hst,        \* one Host object: its fetched data, the lookups made and the reads served
    ds,         \* disk_set: the size text, the commands run and the inventory disk size
    vs,         \* vm_sync: the inventory record, the reported attributes, the commits
    ms,         \* mem_set: the size text, the offline flag, the VM and the operations done
    vc,         \* vm_start / vm_stop / vm_restart / vm_delete: the VM, the operations done, the inventory state
    hyp         \* one Hypervisor object: its cached VM list, the VMs assigned to it, the calls made and their results

svars == <<pc, host, dev_minor, exc, bodyRes, stopCalls, trace>>

wvars == <<wpc, minor, progressbar_found, show_progress, status, logged, proc, wExit, gate>>

\* The state of the other parts of the program: every part leaves the state
\* of the others alone.
ovars == <<blk, cl, mig, cmp, hst, ds, vs, ms, vc, hyp>>

rest_blk == <<svars, wvars, cl, mig, cmp, hst, ds, vs, ms, vc, hyp>>

rest_cl == <<svars, wvars, blk, mig, cmp, hst, ds, vs, ms, vc, hyp>>

rest_mig == <<svars, wvars, blk, cl, cmp, hst, ds, vs, ms, vc, hyp>>

rest_cmp == <<svars, wvars, blk, cl, mig, hst, ds, vs, ms, vc, hyp>>

rest_hst == <<svars, wvars, blk, cl, mig, cmp, ds, vs, ms, vc, hyp>>

rest_ds == <<svars, wvars, blk, cl, mig, cmp, hst, vs, ms, vc, hyp>>

rest_vs == <<svars, wvars, blk, cl, mig, cmp, hst, ds, ms, vc, hyp>>

rest_ms == <<svars, wvars, blk, cl, mig, cmp, hst, ds, vs, vc, hyp>>

rest_vc == <<svars, wvars, blk, cl, mig, cmp, hst, ds, vs, ms, hyp>>

rest_hyp == <<svars, wvars, blk, cl, mig, cmp, hst, ds, vs, ms, vc>>

vars == <<pc, host, dev_minor, exc, bodyRes, stopCalls, trace,
          wpc, minor, progressbar_found, show_progress, status, logged, proc, wExit, gate,
          blk, cl, mig, cmp, hst, ds, vs, ms, vc, hyp>>

Sessions == {"primary", "secondary"}

Outer == "primary"

Inner == "secondary"

master_role(s) == s = "primary"

Peer(s) == IF s = "primary" THEN "secondary" ELSE "primary"

(***************************************************************************)
(* Call sites.  Each label is one call of drbd.py.                         *)
(***************************************************************************)
MetaSteps == {"M1", "M2"}

OverrideSteps == {"L1", "L2"}

ConfigSteps == {"statSelf", "statPeer", "C1"}

TakeOverSteps == {"lvs", "T1", "T2md", "T2up", "T3ow", "T3wc", "T3pr", "T4", "T5"}

FwdSteps == MetaSteps \cup OverrideSteps \cup ConfigSteps \cup TakeOverSteps

TakeOverRollback == {"R5load", "R5resume", "Rdown", "Rresume"}

RbSteps == TakeOverRollback \cup {"Rrm", "Rdmremove", "Rlvremove"}

StopSteps == {"Ssuspend", "Sload", "Sresume", "Sdown", "Sresumevm",
              "Sdmremove", "Slvremove", "Srm"}

Labels == FwdSteps \cup RbSteps \cup StopSteps

VmStates == {"undefined", "shutoff", "running", "paused"}

NoLine == [kind |-> "none", dev |-> 0, utd |-> FALSE]

CleanHost(vm) ==
    [meta |-> FALSE, shim |-> FALSE, res |-> FALSE, table |-> FALSE,
     active |-> "orig", inactive |-> "none", susp |-> FALSE, drbd |-> FALSE,
     vm |-> vm]

(***************************************************************************)
(* The hypervisor queries used by stop().                                  *)
(***************************************************************************)
vm_defined(h) == h.vm # "undefined"

vm_running(h) == h.vm \in {"running", "paused"}

(***************************************************************************)
(* What a call does to the hypervisor when it succeeds.                    *)
(***************************************************************************)
DmResume(h) ==
    [h EXCEPT !.susp = FALSE,
              !.active = IF h.inactive = "none" THEN h.active ELSE h.inactive,
              !.inactive = "none"]

Eff(at, h) ==
    CASE at = "M1" -> [h EXCEPT !.meta = TRUE]
      [] at = "L1" -> [h EXCEPT !.table = TRUE]
      [] at = "L2" -> [h EXCEPT !.shim = TRUE]
      [] at = "C1" -> [h EXCEPT !.res = TRUE]
      [] at = "T1" -> [h EXCEPT !.susp = TRUE]
      [] at = "T2up" -> [h EXCEPT !.drbd = TRUE]
      [] at = "T4" -> [h EXCEPT !.inactive = "drbd"]
      [] at \in {"T5", "R5resume", "Rresume", "Sresume"} -> DmResume(h)
      [] at \in {"R5load", "Sload"} -> [h EXCEPT !.inactive = "orig"]
      [] at \in {"Rdown", "Sdown"} -> [h EXCEPT !.drbd = FALSE]
      [] at \in {"Rrm", "Srm"} -> [h EXCEPT !.res = FALSE]
      [] at \in {"Rdmremove", "Sdmremove"} -> [h EXCEPT !.shim = FALSE]
      [] at \in {"Rlvremove", "Slvremove"} -> [h EXCEPT !.meta = FALSE]
      [] at = "Ssuspend" -> [h EXCEPT !.vm = "paused"]
      [] at = "Sresumevm" -> [h EXCEPT !.vm = "running"]
      [] OTHER -> h

\* A failed call leaves the hypervisor as it was, except the shell redirection
\* of L1 (the file may exist) and "drbdadm up" (the device may be started).
FailEffects(at, h) ==
    CASE at = "L1" -> {h, [h EXCEPT !.table = TRUE]}
      [] at = "T2up" -> {h, [h EXCEPT !.drbd = TRUE]}
      [] OTHER -> {h}

\* DRBD refuses to go down while the LV's active table still maps onto it.
CanSucceed(at, h) == at \in {"Rdown", "Sdown"} => h.active # "drbd"

WarnOnly(at) == at = "Rdown"

(***************************************************************************)
(* Statement order and exception handlers.                                 *)
(***************************************************************************)
\* The element after `at` in `order`; `last` when `at` is its last element.
SuccIn(order, at, last) ==
    LET I == {i \in 1..Len(order) : order[i] = at}
        i == CHOOSE j \in I : TRUE
    IN IF I = {} \/ i = Len(order) THEN last ELSE order[i + 1]

MetaOrder == <<"M1", "M2">>

OverrideOrder == <<"L1", "L2">>

ConfigOrder == <<"statSelf", "statPeer", "C1">>

\* Faulty variant: the secondary promotes itself before wait-connect.
RoleOrderPromoteFirst(s) == IF master_role(s) THEN <<"T3ow">> ELSE <<"T3pr", "T3wc">>

RoleOrder(s) == IF master_role(s) THEN <<"T3ow">> ELSE <<"T3wc", "T3pr">>

TakeOverOrder(s) ==
    <<"lvs", "T1", "T2md", "T2up">> \o RoleOrder(s) \o <<"T4", "T5">>

\* Faulty variant: build_config() entered before prepare_lv_override().
StartOrderConfigFirst(s) ==
    MetaOrder \o ConfigOrder \o OverrideOrder \o TakeOverOrder(s)

\* with prepare_metadata_device() [which enters prepare_lv_override()],
\*      build_config(peer): take_over_device()
StartOrder(s) == MetaOrder \o OverrideOrder \o ConfigOrder \o TakeOverOrder(s)

StartNext(s, at) == SuccIn(StartOrder(s), at, "body")

\* Faulty variant: the initialisation inside the try/finally, so that stop() follows.
AfterRollbackInsideTry == "stop"

\* Where start() ends when its initialisation has failed and unwound: the
\* with statement is outside the try/finally, so the exception leaves start().
AfterRollback == "raised"

RollbackOrder ==
    <<"R5load", "R5resume", "Rdown", "Rresume", "Rrm", "Rdmremove", "Rlvremove">>

RollbackNext(at) == SuccIn(RollbackOrder, at, AfterRollback)

\* Faulty variant: DRBD taken down between the table load and the resume.
StopOrderDownFirst ==
    <<"Ssuspend", "Sload", "Sdown", "Sresume", "Scheck2", "Sresumevm",
      "Sdmremove", "Slvremove", "Srm">>

StopOrder ==
    <<"Ssuspend", "Sload", "Sresume", "Sdown", "Scheck2", "Sresumevm",
      "Sdmremove", "Slvremove", "Srm">>

StopNext(at) == SuccIn(StopOrder, at, "stopped")

NextOf(s, at) ==
    IF at \in FwdSteps THEN StartNext(s, at)
    ELSE IF at \in RbSteps THEN RollbackNext(at)
    ELSE StopNext(at)

\* The except clause that catches a failure of the call at `at`.
MetaHandler(at) == IF at = "M1" THEN AfterRollback ELSE "Rlvremove"

\* Faulty variant: "dmsetup create" inside the try of prepare_lv_override().
OverrideHandlerCreateInsideTry(at) == IF at = "L2" THEN "Rdmremove" ELSE "Rlvremove"

OverrideHandler(at) == "Rlvremove"

ConfigHandler(at) == "Rdmremove"

\* Faulty variant: no except clause around the resume that swaps the DRBD table in.
TakeOverHandlerNoReload(at) ==
    CASE at \in {"lvs", "T1"} -> "Rrm"
      [] at \in {"T2md", "T2up", "T3ow", "T3wc", "T3pr", "T4", "T5"} -> "Rdown"
      [] at \in {"R5load", "R5resume"} -> "Rdown"
      [] at = "Rresume" -> "Rrm"

\* Faulty variant: no except clause around the commands after the suspend.
TakeOverHandlerNoOuterExcept(at) ==
    CASE at \in {"lvs", "T1"} -> "Rrm"
      [] at \in {"T2md", "T2up", "T3ow", "T3wc", "T3pr", "T4"} -> "Rrm"
      [] at = "T5" -> "R5load"
      [] at \in {"R5load", "R5resume"} -> "Rdown"
      [] at = "Rresume" -> "Rrm"

TakeOverHandler(at) ==
    CASE at \in {"lvs", "T1"} -> "Rrm"
      [] at \in {"T2md", "T2up", "T3ow", "T3wc", "T3pr", "T4"} -> "Rdown"
      [] at = "T5" -> "R5load"
      [] at \in {"R5load", "R5resume"} -> "Rdown"
      [] at = "Rresume" -> "Rrm"

\* Faulty variant: an except clause whose inverse fails ends the unwinding.
HandlerOfInverseEndsUnwinding(at) ==
    CASE at \in MetaSteps -> MetaHandler(at)
      [] at \in OverrideSteps -> OverrideHandler(at)
      [] at \in ConfigSteps -> ConfigHandler(at)
      [] at \in TakeOverSteps \cup {"R5load", "R5resume"} -> TakeOverHandler(at)
      [] at \in {"Rresume", "Rrm", "Rdmremove", "Rlvremove"} -> AfterRollback
      [] at \in StopSteps -> "stop_raised"

\* An exception raised by an inverse leaves its except clause and is caught
\* by the except clause of the enclosing context manager.
HandlerOf(at) ==
    CASE at \in MetaSteps -> MetaHandler(at)
      [] at \in OverrideSteps -> OverrideHandler(at)
      [] at \in ConfigSteps -> ConfigHandler(at)
      [] at \in TakeOverSteps \cup {"R5load", "R5resume", "Rresume"} -> TakeOverHandler(at)
      [] at = "Rrm" -> "Rdmremove"
      [] at = "Rdmremove" -> "Rlvremove"
      [] at = "Rlvremove" -> AfterRollback
      [] at \in StopSteps -> "stop_raised"

(***************************************************************************)
(* One call: hv.run / hv.put / hv.suspend_vm / hv.resume_vm at `at`.       *)
(***************************************************************************)
Exec(s, at) ==
    /\ pc[s] = at
    /\ \E ok \in BOOLEAN :
        /\ ok => CanSucceed(at, host[s])
        /\ trace' = Append(trace, [s |-> s, at |-> at, ok |-> ok])
        /\ IF ok
           THEN /\ host' = [host EXCEPT ![s] = Eff(at, @)]
                /\ pc' = [pc EXCEPT ![s] = NextOf(s, at)]
                /\ exc' = exc
           ELSE /\ \E h2 \in FailEffects(at, host[s]) :
                       host' = [host EXCEPT ![s] = h2]
                /\ IF WarnOnly(at)
                   THEN /\ pc' = [pc EXCEPT ![s] = NextOf(s, at)]
                        /\ exc' = exc
                   ELSE /\ pc' = [pc EXCEPT ![s] = HandlerOf(at)]
                        /\ exc' = [exc EXCEPT ![s] = at]
    /\ UNCHANGED <<dev_minor, bodyRes, stopCalls>>
    /\ UNCHANGED <<wvars, ovars>>

prepare_metadata_device(s) == \E at \in MetaSteps \cup {"Rlvremove"} : Exec(s, at)

prepare_lv_override(s) == \E at \in OverrideSteps \cup {"Rdmremove"} : Exec(s, at)

\* get_device_minor() of DRBD object `o`, called by session s at `at`:
\* the stat is run only when the minor is not cached yet.
get_device_minor(s, at, o) ==
    /\ pc[s] = at
    /\ IF dev_minor[o]
       THEN /\ pc' = [pc EXCEPT ![s] = NextOf(s, at)]
            /\ UNCHANGED <<host, dev_minor, exc, bodyRes, stopCalls, trace>>
            /\ UNCHANGED <<wvars, ovars>>
       ELSE \E ok \in BOOLEAN :
            /\ trace' = Append(trace, [s |-> s, at |-> at, ok |-> ok])
            /\ IF ok
               THEN /\ dev_minor' = [dev_minor EXCEPT ![o] = TRUE]
                    /\ pc' = [pc EXCEPT ![s] = NextOf(s, at)]
                    /\ exc' = exc
               ELSE /\ dev_minor' = dev_minor
                    /\ pc' = [pc EXCEPT ![s] = HandlerOf(at)]
                    /\ exc' = [exc EXCEPT ![s] = at]
            /\ UNCHANGED <<host, bodyRes, stopCalls>>
            /\ UNCHANGED <<wvars, ovars>>

get_host_config(s) ==
    \/ get_device_minor(s, "statSelf", s)
    \/ get_device_minor(s, "statPeer", Peer(s))

build_config(s) ==
    \/ get_host_config(s)
    \/ \E at \in {"C1", "Rrm"} : Exec(s, at)

take_over_device(s) == \E at \in TakeOverSteps \cup TakeOverRollback : Exec(s, at)

(***************************************************************************)
(* stop()                                                                  *)
(***************************************************************************)
\* Faulty variant: the role test left out.
NeedQuiesceAnyRole(s) ==
    /\ vm_defined(host[s])
    /\ vm_running(host[s])

NeedQuiesce(s) ==
    /\ ~master_role(s)
    /\ vm_defined(host[s])
    /\ vm_running(host[s])

\* The finally clause of start(): stop() is entered when the body has ended.
StopEnter(s) ==
    /\ pc[s] = "stop"
    /\ stopCalls' = [stopCalls EXCEPT ![s] = @ + 1]
    /\ pc' = [pc EXCEPT ![s] = IF NeedQuiesce(s) THEN "Ssuspend" ELSE "Sload"]
    /\ UNCHANGED <<host, dev_minor, exc, bodyRes, trace>>
    /\ UNCHANGED <<wvars, ovars>>

StopCheckResume(s) ==
    /\ pc[s] = "Scheck2"
    /\ pc' = [pc EXCEPT ![s] = IF NeedQuiesce(s) THEN "Sresumevm" ELSE "Sdmremove"]
    /\ UNCHANGED <<host, dev_minor, exc, bodyRes, stopCalls, trace>>
    /\ UNCHANGED <<wvars, ovars>>

stop(s) ==
    \/ StopEnter(s)
    \/ StopCheckResume(s)
    \/ \E at \in StopSteps : Exec(s, at)

(***************************************************************************)
(* The scope bodies of the nested pair.                                    *)
(***************************************************************************)
\* Faulty variant: stop() after the yield without try/finally.
AfterBodyNoFinally(res) == IF res = "raise" THEN "stopped" ELSE "stop"

\* Where start() goes when its body has ended with `res`.
AfterBody(res) == "stop"

\* The outer body is the inner scope.
EnterInner ==
    /\ pc[Outer] = "body"
    /\ pc[Inner] = "idle"
    /\ pc' = [pc EXCEPT ![Inner] = "M1"]
    /\ UNCHANGED <<host, dev_minor, exc, bodyRes, stopCalls, trace>>
    /\ UNCHANGED <<wvars, ovars>>

\* The inner body: synchronisation and hand-off; it ends normally or raises
\* and may leave the VM in another state on either hypervisor.
InnerBody ==
    /\ pc[Inner] = "body"
    /\ \E res \in {"ok", "raise"}, v1, v2 \in VmStates \ {"paused"} :
        /\ bodyRes' = [bodyRes EXCEPT ![Inner] = res]
        /\ host' = [host EXCEPT ![Outer].vm = v1, ![Inner].vm = v2]
        /\ pc' = [pc EXCEPT ![Inner] = AfterBody(res)]
    /\ UNCHANGED <<dev_minor, exc, stopCalls, trace>>
    /\ UNCHANGED <<wvars, ovars>>

Raised(s) ==
    \/ pc[s] \in {"raised", "stop_raised"}
    \/ pc[s] = "stopped" /\ bodyRes[s] = "raise"

Ended(s) == pc[s] \in {"raised", "stopped", "stop_raised"}

OuterBodyEnd ==
    /\ pc[Outer] = "body"
    /\ Ended(Inner)
    /\ LET res == IF Raised(Inner) THEN "raise" ELSE "ok" IN
        /\ bodyRes' = [bodyRes EXCEPT ![Outer] = res]
        /\ pc' = [pc EXCEPT ![Outer] = AfterBody(res)]
    /\ UNCHANGED <<host, dev_minor, exc, stopCalls, trace>>
    /\ UNCHANGED <<wvars, ovars>>

InitSessions ==
    /\ pc = [s \in Sessions |-> IF s = Outer THEN "M1" ELSE "idle"]
    /\ \E v \in {"running", "shutoff"} :
          host = [s \in Sessions |->
                    CleanHost(IF s = Outer THEN v ELSE "undefined")]
    /\ dev_minor = [s \in Sessions |-> FALSE]
    /\ exc = [s \in Sessions |-> "none"]
    /\ bodyRes = [s \in Sessions |-> "none"]
    /\ stopCalls = [s \in Sessions |-> 0]
    /\ trace = <<>>

WaitIdle ==
    /\ wpc = "idle"
    /\ minor = 1
    /\ progressbar_found = 0
    /\ show_progress = TRUE
    /\ status = NoLine
    /\ logged = NoLine
    /\ proc = <<>>
    /\ wExit = {}
    /\ gate = "none"

\* A part of the program that is not called keeps the state it has before its
\* call.
NotCalled == [pc |-> "idle"]

\* Every part but g is not called.
IdleExcept(g) ==
    /\ g = "blk" \/ blk = NotCalled
    /\ g = "cl" \/ cl = NotCalled
    /\ g = "mig" \/ mig = NotCalled
    /\ g = "cmp" \/ cmp = NotCalled
    /\ g = "hst" \/ hst = NotCalled
    /\ g = "ds" \/ ds = NotCalled
    /\ g = "vs" \/ vs = NotCalled
    /\ g = "ms" \/ ms = NotCalled
    /\ g = "vc" \/ vc = NotCalled
    /\ g = "hyp" \/ hyp = NotCalled

Init == InitSessions /\ WaitIdle /\ IdleExcept("none")

(***************************************************************************)
(* wait_for_sync()                                                         *)
(*                                                                         *)
(* /proc/drbd is a sequence of lines.  A status line is the line           *)
(* " <dev>: cs:... ds:.../..." of one device; every other line (header,    *)
(* counters, progress bar) is "other".                                     *)
(***************************************************************************)
MaxLines == 3

Devs == {1, 11}

StatusLine(d, u) == [kind |-> "status", dev |-> d, utd |-> u]

OtherLine == [kind |-> "other", dev |-> 0, utd |-> FALSE]

\* The progress bar the kernel prints two lines below the status line of a
\* device that is synchronising.
BarLine == [kind |-> "bar", dev |-> 0, utd |-> FALSE]

LineSet == {StatusLine(d, u) : d \in Devs, u \in BOOLEAN} \cup {OtherLine, BarLine}

ProcFiles == UNION {[1..n -> LineSet] : n \in 0..MaxLines}

RECURSIVE NumDigits(_)
NumDigits(n) == IF n < 10 THEN 1 ELSE 1 + NumDigits(n \div 10)

RECURSIVE Pow10(_)
Pow10(k) == IF k = 0 THEN 1 ELSE 10 * Pow10(k - 1)

\* '{}: cs:'.format(minor) in line: the decimal text of the minor followed by
\* ": cs:" occurs in the line, that is, it ends the line's device number.
InLine(m, line) ==
    /\ line.kind = "status"
    /\ line.dev % Pow10(NumDigits(m)) = m

\* The first line the for loop stops at (0: none, the for loop's else).
FirstMatch(f, m) ==
    LET S == {i \in 1..Len(f) : InLine(m, f[i])}
    IN IF S = {} THEN 0 ELSE CHOOSE i \in S : \A j \in S : i <= j

MaxBarWait == 5

\* Faulty variant: the function returns when the loop ends.
WhileTestReturn(sp) == IF sp THEN "poll" ELSE "returned"

\* The while test, and the statement after the loop.
WhileTest(sp) == IF sp THEN "poll" ELSE "gate"

WaitEnter ==
    /\ wpc = "idle"
    /\ wpc' = WhileTest(show_progress)
    /\ UNCHANGED <<minor, progressbar_found, show_progress, status, logged, proc, wExit, gate>>
    /\ UNCHANGED <<svars, ovars>>

\* One iteration of the while loop: read /proc/drbd and scan it.
Poll ==
    /\ wpc = "poll"
    /\ \/ /\ wpc' = "raised"
          /\ UNCHANGED <<minor, progressbar_found, show_progress, status, logged, proc, wExit, gate>>
       \/ \E f \in ProcFiles :
            LET i == FirstMatch(f, minor)
                utd == i # 0 /\ f[i].utd
                nobar == i # 0 /\ i + 2 > Len(f)
                found == IF nobar THEN progressbar_found + 1 ELSE progressbar_found
                giveup == nobar /\ ~(found < MaxBarWait)
                sp == ~(i = 0 \/ utd \/ giveup)
            IN /\ proc' = f
               /\ status' = (IF i = 0 THEN NoLine ELSE f[i])
               /\ logged' = (IF i = 0 \/ nobar THEN NoLine ELSE f[i + 2])
               /\ progressbar_found' = found
               /\ show_progress' = sp
               /\ wExit' = (IF i = 0 THEN {"notfound"} ELSE {})
                             \cup (IF utd THEN {"uptodate"} ELSE {})
                             \cup (IF giveup THEN {"nobar"} ELSE {})
               /\ wpc' = WhileTest(sp)
               /\ UNCHANGED <<minor, gate>>
    /\ UNCHANGED <<svars, ovars>>

\* drbdsetup wait-sync {minor}
WaitSync ==
    /\ wpc = "gate"
    /\ \E ok \in BOOLEAN :
        /\ gate' = IF ok THEN "ok" ELSE "failed"
        /\ wpc' = IF ok THEN "returned" ELSE "raised"
    /\ UNCHANGED <<minor, progressbar_found, show_progress, status, logged, proc, wExit>>
    /\ UNCHANGED <<svars, ovars>>

wait_for_sync == WaitEnter \/ Poll \/ WaitSync

InitWait ==
    /\ pc = [s \in Sessions |-> "body"]
    /\ host = [s \in Sessions |-> CleanHost("running")]
    /\ dev_minor = [s \in Sessions |-> TRUE]
    /\ exc = [s \in Sessions |-> "none"]
    /\ bodyRes = [s \in Sessions |-> "none"]
    /\ stopCalls = [s \in Sessions |-> 0]
    /\ trace = <<>>
    /\ wpc = "idle"
    /\ minor \in Devs
    /\ progressbar_found = 0
    /\ show_progress = TRUE
    /\ status = NoLine
    /\ logged = NoLine
    /\ proc = <<>>
    /\ wExit = {}
    /\ gate = "none"
    /\ IdleExcept("none")

SpecWait == InitWait /\ [][wait_for_sync]_vars

Next ==
    \/ \E s \in Sessions : prepare_metadata_device(s)
    \/ \E s \in Sessions : prepare_lv_override(s)
    \/ \E s \in Sessions : build_config(s)
    \/ \E s \in Sessions : take_over_device(s)
    \/ \E s \in Sessions : stop(s)
    \/ EnterInner
    \/ InnerBody
    \/ OuterBodyEnd

Spec == Init /\ [][Next]_vars

\* The calls return and the interpreter goes on: the program does not stop
\* while a statement is left to run.
SpecFair == Spec /\ WF_vars(Next)

(***************************************************************************)
(* Reading the trace.                                                      *)
(***************************************************************************)
Range(q) == {q[i] : i \in DOMAIN q}

Entries(s, S) == SelectSeq(trace, LAMBDA e : e.s = s /\ e.at \in S)

Issued(s, S) == [i \in 1..Len(Entries(s, S)) |-> Entries(s, S)[i].at]

Completed(s) == {e.at : e \in {x \in Range(trace) : x.s = s /\ x.ok}}

Failed(s, S) == {e.at : e \in {x \in Range(trace) : x.s = s /\ ~x.ok /\ x.at \in S}}

IsPrefix(p, q) == Len(p) <= Len(q) /\ \A i \in 1..Len(p) : p[i] = q[i]

IndexOf(q, x) == CHOOSE i \in DOMAIN q : q[i] = x

QuadAbsent(h) == ~h.meta /\ ~h.shim /\ ~h.res /\ ~h.table

InverseSteps == {"Rdown", "Rresume", "Rrm", "Rdmremove", "Rlvremove"}

ExpectedInverses(s) ==
    (IF "T1" \in Completed(s) THEN <<"Rdown", "Rresume">> ELSE <<>>)
    \o (IF "C1" \in Completed(s) THEN <<"Rrm">> ELSE <<>>)
    \o (IF "L2" \in Completed(s) THEN <<"Rdmremove">> ELSE <<>>)
    \o (IF "M1" \in Completed(s) THEN <<"Rlvremove">> ELSE <<>>)

SpecStepOrder(s) ==
    <<"M1", "M2", "L1", "L2", "C1", "T1", "T2md", "T2up">>
    \o (IF s = "primary" THEN <<"T3ow">> ELSE <<"T3wc", "T3pr">>)
    \o <<"T4", "T5">>

QuerySteps == {"statSelf", "statPeer", "lvs"}

\* C2: on a run of start() in which no command fails, the steps are issued in
\* the order lvcreate (M1), dd (M2), dmsetup table (L1), dmsetup create (L2),
\* upload of the resource file (C1), dmsetup suspend (T1), drbdadm create-md
\* and up (T2), the role step (T3), dmsetup load of the DRBD table (T4),
\* dmsetup resume (T5), and the scope body starts only after T5.  (The
\* read-only queries stat and lvs that the code runs in between are not steps.)
C2_ForwardOrder ==
    \A s \in Sessions :
        /\ Failed(s, FwdSteps) = {} =>
            /\ IsPrefix(Issued(s, FwdSteps \ QuerySteps), SpecStepOrder(s))
            /\ pc[s] \notin FwdSteps \cup {"idle"}
                 => Issued(s, FwdSteps \ QuerySteps) = SpecStepOrder(s)
        /\ (pc[s] = "body" \/ bodyRes[s] # "none") =>
            /\ "T5" \in Completed(s)
            /\ Failed(s, FwdSteps) = {}

C2_Witness ==
    /\ pc["secondary"] = "body"
    /\ Issued("secondary", FwdSteps \ QuerySteps) = SpecStepOrder("secondary")
    /\ Issued("primary", FwdSteps \ QuerySteps) = SpecStepOrder("primary")
    /\ {"statSelf", "statPeer", "lvs"} \subseteq Completed("primary")

\* C3: after a session whose start() succeeded has left its scope and every
\* tear-down command has succeeded, the meta LV, the shim, the resource file
\* and the table dump file are all absent on the hypervisor.
C3_QuadAbsentAfterTearDown ==
    \A s \in Sessions : pc[s] = "stopped" => QuadAbsent(host[s])

\* C4: after start() has failed at any forward step and every rollback inverse
\* has succeeded, the meta LV, the shim, the resource file and the table dump
\* file are all absent on the hypervisor.
C4_QuadAbsentAfterRollback ==
    \A s \in Sessions :
        (pc[s] = "raised" /\ Failed(s, RbSteps) = {}) => QuadAbsent(host[s])

ReleaseClasses ==
    {{"Rdown", "Sdown"}, {"Rrm", "Srm"}, {"Rdmremove", "Sdmremove"},
     {"Rlvremove", "Slvremove"}}

\* C5: stop() is executed exactly once when the scope body has exited,
\* normally or by raising; when start() fails during initialisation stop() is
\* never executed; and no release command (drbdadm down, rm of the resource
\* file, dmsetup remove of the shim, lvremove of the meta LV) is issued twice
\* for one session.
C5_StopExactlyOnce ==
    \A s \in Sessions :
        /\ stopCalls[s] <= 1
        /\ (bodyRes[s] # "none" /\ pc[s] # "stop") => stopCalls[s] = 1
        /\ bodyRes[s] = "none" =>
            /\ stopCalls[s] = 0
            /\ Issued(s, StopSteps) = <<>>
        /\ Failed(s, FwdSteps) # {} =>
            /\ stopCalls[s] = 0
            /\ bodyRes[s] = "none"
            /\ Issued(s, StopSteps) = <<>>
        /\ \A R \in ReleaseClasses : Len(Issued(s, R)) <= 1

C5_Witness ==
    /\ pc["secondary"] = "stopped"
    /\ bodyRes["secondary"] = "raise"
    /\ pc["primary"] = "stopped"
    /\ stopCalls = [s \in Sessions |-> 1]

StopCmds == <<"Sload", "Sresume", "Sdown", "Sdmremove", "Slvremove", "Srm">>

\* C6: stop() issues dmsetup load of the original table, then dmsetup resume,
\* then drbdadm down, and the final cleanup (dmsetup remove of the shim,
\* lvremove of the meta LV, rm of the resource file) only after drbdadm down:
\* each command is issued only when the one before it has completed.
C6_StopOrder ==
    \A s \in Sessions :
        LET q == Entries(s, Range(StopCmds)) IN
        /\ IsPrefix(Issued(s, Range(StopCmds)), StopCmds)
        /\ \A i \in 1..(Len(q) - 1) : q[i].ok

C6_Witness ==
    /\ pc["primary"] = "stopped"
    /\ Issued("primary", StopSteps) = StopCmds

\* C7: in stop() on the secondary endpoint whose VM is defined and running,
\* the VM is suspended before the original table is reloaded and resumed
\* after drbdadm down; on the primary endpoint suspend_vm and resume_vm are
\* never called, whatever the VM state.
C7_QuiesceOnSecondaryOnly ==
    \A s \in Sessions :
        LET q == Issued(s, StopSteps) IN
        /\ s = "primary" => Range(q) \cap {"Ssuspend", "Sresumevm"} = {}
        /\ (s = "secondary" /\ stopCalls[s] = 1
              /\ host[s].vm \in {"running", "paused"}) =>
            /\ "Sload" \in Range(q) =>
                 /\ q[1] = "Ssuspend"
                 /\ "Ssuspend" \in Completed(s)
            /\ "Sresumevm" \in Range(q) =>
                 /\ "Sdown" \in Completed(s)
                 /\ IndexOf(q, "Sresumevm") = IndexOf(q, "Sdown") + 1
            /\ "Sdmremove" \in Range(q) => "Sresumevm" \in Completed(s)
        /\ (s = "secondary" /\ host[s].vm \in {"undefined", "shutoff"}) =>
            Range(q) \cap {"Ssuspend", "Sresumevm"} = {}

C7_Witness ==
    /\ pc["secondary"] = "stopped"
    /\ Issued("secondary", StopSteps)
         = <<"Ssuspend", "Sload", "Sresume", "Sdown", "Sresumevm",
             "Sdmremove", "Slvremove", "Srm">>

\* C8: when a tear-down command of stop() fails, every remaining tear-down
\* command (drbdadm down, dmsetup remove of the shim, lvremove of the meta LV,
\* rm of the resource file) is still attempted.
C8_TearDownContinuesAfterFailure ==
    \A s \in Sessions :
        pc[s] = "stop_raised" =>
            {"Sdown", "Sdmremove", "Slvremove", "Srm"} \subseteq Range(Issued(s, StopSteps))

C9_TearDownNesting ==
    /\ stopCalls["primary"] > 0 => Ended("secondary")
    /\ \A i, j \in DOMAIN trace :
         (trace[i].s = "secondary" /\ trace[j].s = "primary"
            /\ trace[j].at \in StopSteps) => i < j
    /\ (Ended("primary") /\ pc["secondary"] # "idle") =>
         /\ stopCalls["primary"] = 1
         /\ Ended("secondary")

\* C9: with the primary session as outer scope and the secondary as inner
\* scope, the secondary's tear-down has finished or failed before the
\* primary's tear-down begins, and the primary's tear-down runs on every exit
\* path: when the secondary's start() fails, when the body raises and when
\* the secondary's tear-down raises.
C9_InnerReleasedFirst ==
    /\ []C9_TearDownNesting
    /\ (pc["secondary"] = "raised") ~> (stopCalls["primary"] = 1)
    /\ (bodyRes["secondary"] = "raise") ~> (stopCalls["primary"] = 1)
    /\ (pc["secondary"] = "stop_raised") ~> (stopCalls["primary"] = 1)

C9_Witness ==
    /\ pc["secondary"] = "stop_raised"
    /\ bodyRes["secondary"] = "raise"
    /\ pc["primary"] = "stopped"

\* C10: wait_for_sync() returns only after "drbdsetup wait-sync" has been
\* issued and has succeeded; the command is issued after the polling loop on
\* every way the loop can exit (UpToDate/UpToDate seen, status line not found,
\* progress bar given up) and never while the loop is still polling.
C10_WaitSyncGate ==
    /\ wpc = "returned" => gate = "ok"
    /\ gate # "none" => (wExit # {} /\ ~show_progress)
    /\ wpc = "poll" => (gate = "none" /\ show_progress)
    /\ wpc = "gate" => (gate = "none" /\ wExit # {} /\ ~show_progress)
    /\ (wExit # {} /\ wpc # "gate") => gate # "none"
    /\ wExit \subseteq {"uptodate", "notfound", "nobar"}

C10_Witness ==
    /\ wpc = "returned"
    /\ wExit = {"nobar"}
    /\ gate = "ok"

(***************************************************************************)
(* sync_block_size (igvm/drbd.py): before the replication starts, the      *)
(* block size of the guest's vda is set to the smallest of the block sizes *)
(* of the guest device and of the two logical volumes.                     *)
(***************************************************************************)

\* No replication session is open and no wait is in progress.
DrbdIdle ==
    /\ pc = [s \in Sessions |-> "idle"]
    /\ host = [s \in Sessions |-> CleanHost("running")]
    /\ dev_minor = [s \in Sessions |-> FALSE]
    /\ exc = [s \in Sessions |-> "none"]
    /\ bodyRes = [s \in Sessions |-> "none"]
    /\ stopCalls = [s \in Sessions |-> 0]
    /\ trace = <<>>
    /\ WaitIdle

\* Block sizes are 512 * 2^k bytes, k up to MaxBlockExp.
MaxBlockExp == 3

RECURSIVE Pow2(_)
Pow2(k) == IF k = 0 THEN 1 ELSE 2 * Pow2(k - 1)

BlockSizes == {512 * Pow2(k) : k \in 0..MaxBlockExp}

Min(a, b) == IF b < a THEN b ELSE a

\* Faulty variant: the destination volume is left out of the minimum.
Min3SourceOnly(a, b, c) == Min(a, b)

\* min(vm_block_size, src_block_size, dst_block_size)
Min3(a, b, c) == Min(Min(a, b), c)

\* The calls of sync_block_size that read or set a block size, in the order
\* of the code.
BlockCalls ==
    << "vm.get_block_size", "src.get_block_size", "dst.get_block_size",
       "vm.set_block_size" >>

\* The whole function: nothing when the VM does not run on the source;
\* otherwise the three reads and the write, each of which can fail and then
\* ends the function with the error.
sync_block_size ==
    /\ blk.pc = "called"
    /\ IF blk.running
       THEN \E n \in 1..Len(BlockCalls), ok \in BOOLEAN :
              /\ ok => n = Len(BlockCalls)
              /\ blk' = [blk EXCEPT
                    !.pc = IF ok THEN "returned" ELSE "raised",
                    !.calls = SubSeq(BlockCalls, 1, n),
                    !.guest = IF ok THEN Min3(blk.guest, blk.src, blk.dst)
                              ELSE blk.guest]
       ELSE blk' = [blk EXCEPT !.pc = "returned"]
    /\ UNCHANGED rest_blk

\* guest: the block size of vda in the guest; guest0: its value at the call;
\* src, dst: the block sizes of the volume on the two hypervisors.
InitBlock ==
    /\ DrbdIdle
    /\ IdleExcept("blk")
    /\ \E r \in BOOLEAN, g, s, d \in BlockSizes :
          blk = [pc |-> "called", running |-> r, guest |-> g, guest0 |-> g,
                 src |-> s, dst |-> d, calls |-> <<>>]

SpecBlock == InitBlock /\ [][sync_block_size]_vars

\* C11: when the VM runs on the source hypervisor, the guest block size of
\* vda after sync_block_size is the minimum of the guest's, the source
\* volume's and the destination volume's block size; when the VM does not
\* run, no block size is read and set_block_size is not called.
C11_BlockSizeIsMinimum ==
    blk.pc = "returned" =>
        IF blk.running
        THEN /\ blk.guest \in {blk.guest0, blk.src, blk.dst}
             /\ blk.guest <= blk.guest0
             /\ blk.guest <= blk.src
             /\ blk.guest <= blk.dst
             /\ blk.calls = BlockCalls
        ELSE /\ blk.calls = <<>>
             /\ blk.guest = blk.guest0

\* The destination volume has the smallest block size of the three and the
\* function returned.
C11_Witness ==
    /\ blk.pc = "returned"
    /\ blk.running
    /\ blk.dst < blk.src
    /\ blk.dst < blk.guest0
    /\ blk.guest = blk.dst

(***************************************************************************)
(* Two DRBD sessions for the same VM on one hypervisor (igvm/drbd.py).     *)
(* Both are master_role sessions of two igvm processes; they use the same  *)
(* names: {lv}_meta, {lv}_orig, /etc/drbd.d/{vm}.res, /tmp/{vg}_{lv}_table *)
(* and the device-mapper table of the LV.  Their calls interleave freely.  *)
(***************************************************************************)
Procs == {"p1", "p2"}

OtherProc(c) == IF c = "p1" THEN "p2" ELSE "p1"

\* The named resources a session creates.
Named == {"meta", "shim", "res", "table"}

\* The resource a call creates, overwrites or removes.
Touches(at) ==
    CASE at \in {"M1", "M2", "Rlvremove", "Slvremove"} -> "meta"
      [] at \in {"L2", "Rdmremove", "Sdmremove"} -> "shim"
      [] at \in {"C1", "Rrm", "Srm"} -> "res"
      [] at = "L1" -> "table"
      [] OTHER -> "none"

\* The session a resource belongs to once the call has succeeded.
OwnerAfter(at, c, o) ==
    CASE at \in {"M1", "L1", "L2", "C1"} -> c
      [] at \in {"Rlvremove", "Slvremove", "Rdmremove", "Sdmremove", "Rrm", "Srm"} -> "none"
      [] OTHER -> o

\* lvcreate and dmsetup create refuse a name that exists; drbd.py makes no
\* test of its own before it runs them.
CanSucceedShared(at, h) ==
    /\ CanSucceed(at, h)
    /\ at = "M1" => ~h.meta
    /\ at = "L2" => ~h.shim

\* The error of a failed hv.run(): drbd.py re-raises it unchanged.
RunError == "RemoteExecError"

ClashEnded(c) == cl.pc[c] \in {"raised", "stopped", "stop_raised"}

\* A session is active from its successful lvcreate to the end of its
\* rollback or of its stop().
ClashActive(c) == cl.pc[c] \notin {"M1", "raised", "stopped", "stop_raised"}

\* The statement after `at` in a master_role session: stop() neither
\* suspends nor resumes the VM.
ClashNext(at) ==
    LET n == NextOf("primary", at)
    IN IF n = "Scheck2" THEN "Sdmremove" ELSE n

\* One call of session c on the shared hypervisor.
ClashExec(c) ==
    /\ cl.pc[c] \in Labels
    /\ LET at == cl.pc[c]
           o == OtherProc(c)
           r == Touches(at)
       IN \E ok \in BOOLEAN :
            /\ ok => CanSucceedShared(at, cl.host)
            /\ \E h2 \in (IF ok THEN {Eff(at, cl.host)} ELSE FailEffects(at, cl.host)) :
                 cl' = [cl EXCEPT
                    !.host = h2,
                    !.pc[c] = IF ok \/ WarnOnly(at) THEN ClashNext(at) ELSE HandlerOf(at),
                    !.err[c] = IF ok \/ WarnOnly(at) THEN @ ELSE RunError,
                    !.late[c] = IF at = "M1" THEN ClashActive(o) ELSE @,
                    !.own = IF ok /\ r # "none"
                            THEN [@ EXCEPT ![r] = OwnerAfter(at, c, @)] ELSE @,
                    !.hit = IF ok /\ r # "none" /\ cl.own[r] = o /\ ~ClashEnded(o)
                            THEN @ \cup {[by |-> c, res |-> r]} ELSE @]
    /\ UNCHANGED rest_cl

\* The body of the scope ends and the finally clause enters stop().
ClashBodyEnd(c) ==
    /\ cl.pc[c] = "body"
    /\ cl' = [cl EXCEPT !.pc[c] = "Sload"]
    /\ UNCHANGED rest_cl

InitClash ==
    /\ DrbdIdle
    /\ IdleExcept("cl")
    /\ cl = [pc |-> [c \in Procs |-> "M1"],
             host |-> CleanHost("running"),
             own |-> [r \in Named |-> "none"],
             err |-> [c \in Procs |-> "none"],
             late |-> [c \in Procs |-> FALSE],
             hit |-> {}]

NextClash ==
    \/ \E c \in Procs : ClashExec(c)
    \/ \E c \in Procs : ClashBodyEnd(c)

SpecClash == InitClash /\ [][NextClash]_vars

\* C12: a session started while another session for the same VM is active on
\* the hypervisor aborts its start with InvalidStateError, and it removes or
\* overwrites none of the resources of the active session.
C12_SecondStartAborts ==
    \A c \in Procs :
        cl.late[c] =>
            /\ cl.pc[c] = "raised"
            /\ cl.err[c] = "InvalidStateError"
            /\ \A e \in cl.hit : e.by # c

\* C12, the part that does not depend on the kind of the error: a session
\* started while another one is active gets no further than its lvcreate and
\* changes no resource of the active session.
C12_SecondStartStops ==
    \A c \in Procs :
        cl.late[c] =>
            /\ cl.pc[c] = "raised"
            /\ \A e \in cl.hit : e.by # c

(***************************************************************************)
(* The migration of a VM from its hypervisor to another one                *)
(* (migratevm, exercised by tests/test_integration.py MigrationTest).      *)
(* Pre-flight gates, then the online or the offline plan; a failing step   *)
(* unwinds what the plan has done so far.                                  *)
(***************************************************************************)
Hvs == {"hv1", "hv2"}

OtherHv(h) == IF h = "hv1" THEN "hv2" ELSE "hv1"

SyncAttrs == {"memory", "num_cpu", "disk_size_gib"}

\* The live values of the attributes on the source hypervisor.
LiveAttrs == [a \in SyncAttrs |-> 1]

Gates == {"defined", "attributes", "newip", "runpuppet", "resources"}

GatePasses(g, m) ==
    CASE g = "defined" -> m.src \in m.defined
      [] g = "attributes" -> \A a \in SyncAttrs : m.inv.attrs[a] = LiveAttrs[a]
      [] g = "newip" -> m.newip => (m.offline /\ m.runpuppet)
      [] g = "runpuppet" -> m.runpuppet => m.offline
      [] g = "resources" -> m.destOK

\* Faulty variant: runpuppet is not tested against the online path.
FailedGatesNoPuppetTest(m) == {g \in Gates \ {"runpuppet"} : ~GatePasses(g, m)}

FailedGates(m) == {g \in Gates : ~GatePasses(g, m)}

GateError(g) ==
    CASE g = "defined" -> "InvalidStateError"
      [] g = "attributes" -> "InconsistentAttributeError"
      [] OTHER -> "IGVMError"

\* The errors a step of the plan can fail with.
StepErrors == {"RemoteExecError", "HypervisorError", "IGVMError"}

OnlinePlan ==
    << "sync_block_size", "primary", "secondary", "wait_for_sync", "define",
       "migrate", "undefine_source", "release", "commit" >>

\* Faulty variant: the VM is defined on the destination but not started.
OfflinePlanNoStart ==
    << "shutdown", "primary", "secondary", "wait_for_sync", "define",
       "undefine_source", "release", "commit" >>

OfflinePlan ==
    << "shutdown", "primary", "secondary", "wait_for_sync", "define",
       "start", "undefine_source", "release", "commit" >>

Plan(m) == IF m.offline THEN OfflinePlan ELSE OnlinePlan

\* The hand-over step of the plan: the libvirt migration, or the start on
\* the destination.
HandOver == {"migrate", "start"}

PlanIndex(m, step) == CHOOSE i \in 1..Len(Plan(m)) : Plan(m)[i] = step

\* The failure is at or after the hand-over step.
AtOrAfterHandOver(m, step) ==
    \E i \in 1..PlanIndex(m, step) : Plan(m)[i] \in HandOver

\* What a step of the plan does when it succeeds.
StepEff(step, m) ==
    CASE step = "shutdown" -> [m EXCEPT !.running = "none"]
      [] step = "primary" -> [m EXCEPT !.drbd = @ \cup {m.src}]
      [] step = "secondary" -> [m EXCEPT !.drbd = @ \cup {m.dst}]
      [] step = "define" -> [m EXCEPT !.defined = @ \cup {m.dst}]
      [] step \in HandOver -> [m EXCEPT !.running = m.dst]
      [] step = "undefine_source" -> [m EXCEPT !.defined = @ \ {m.src}]
      [] step = "release" -> [m EXCEPT !.drbd = {}]
      [] step = "commit" ->
            [m EXCEPT !.staged = m.dst, !.inv.xen_host = m.dst, !.commits = @ + 1]
      [] OTHER -> m

\* A failed step changes nothing, except the commit, which has staged the
\* new xen_host before it fails.
StepFail(step, m) == IF step = "commit" THEN [m EXCEPT !.staged = m.dst] ELSE m

\* The gates: the migration is rejected with the error of a gate that does
\* not pass; the order in which the gates are tested is not fixed.
Preflight ==
    /\ mig.pc = "preflight"
    /\ IF FailedGates(mig) = {}
       THEN mig' = [mig EXCEPT !.pc = Plan(mig)[1]]
       ELSE \E g \in FailedGates(mig) :
              mig' = [mig EXCEPT !.pc = "rejected", !.gate = g, !.err = GateError(g)]
    /\ UNCHANGED rest_mig

\* One step of the plan.
PlanStep ==
    /\ mig.pc \in Range(Plan(mig))
    /\ LET step == mig.pc IN
       \/ mig' = [StepEff(step, mig) EXCEPT
                    !.pc = SuccIn(Plan(mig), step, "done")]
       \/ \E e \in StepErrors :
            mig' = [StepFail(step, mig) EXCEPT
                    !.pc = "unwind", !.failedAt = step, !.err = e]
    /\ UNCHANGED rest_mig

\* The rollback: after a failure at or after the hand-over the VM is
\* undefined on the destination, best effort; then the DRBD sessions are
\* released.  The inventory is left alone.
Unwind ==
    /\ mig.pc = "unwind"
    /\ \E undefined \in BOOLEAN, left \in SUBSET mig.drbd :
        /\ mig.failedAt # "release" => left = {}
        /\ mig' = [mig EXCEPT
              !.pc = "failed",
              !.defined = IF AtOrAfterHandOver(mig, mig.failedAt) /\ undefined
                          THEN @ \ {mig.dst} ELSE @,
              !.undone = undefined,
              !.drbd = left]
    /\ UNCHANGED rest_mig

\* The arguments of a call and what the call finds.
Call(m, src, offline, newip, runpuppet, destOK) ==
    [m EXCEPT !.pc = "preflight", !.src = src, !.dst = OtherHv(src),
              !.offline = offline, !.newip = newip, !.runpuppet = runpuppet,
              !.destOK = destOK, !.snap = m.inv, !.staged = m.inv.xen_host,
              !.err = "none", !.gate = "none", !.failedAt = "none",
              !.undone = TRUE, !.commits = 0, !.round = @ + 1]

\* After a successful migration the VM is migrated back.
MigrateBack ==
    /\ mig.pc = "done"
    /\ mig.round = 1
    /\ \E offline, newip, runpuppet, destOK \in BOOLEAN :
          mig' = Call(mig, mig.dst, offline, newip, runpuppet, destOK)
    /\ UNCHANGED rest_mig

\* The VM is defined and running on hv1, its xen_host; the inventory values
\* of the three attributes may differ from the live ones.
InitMigrate ==
    /\ DrbdIdle
    /\ IdleExcept("mig")
    /\ \E offline, newip, runpuppet, destOK \in BOOLEAN,
          attrs \in [SyncAttrs -> {1, 2}] :
          mig = Call([pc |-> "idle", round |-> 0,
                      origin |-> [xen_host |-> "hv1", attrs |-> attrs],
                      inv |-> [xen_host |-> "hv1", attrs |-> attrs],
                      defined |-> {"hv1"}, running |-> "hv1", drbd |-> {},
                      src |-> "hv1", dst |-> "hv2", offline |-> FALSE,
                      newip |-> FALSE, runpuppet |-> FALSE, destOK |-> TRUE,
                      snap |-> [xen_host |-> "hv1", attrs |-> attrs],
                      staged |-> "hv1", err |-> "none", gate |-> "none",
                      failedAt |-> "none", undone |-> TRUE, commits |-> 0],
                     "hv1", offline, newip, runpuppet, destOK)

NextMigrate == Preflight \/ PlanStep \/ Unwind \/ MigrateBack

SpecMigrate == InitMigrate /\ [][NextMigrate]_vars

(***************************************************************************)
(* Properties of the migration.                                            *)
(***************************************************************************)
\* The gates that depend on the arguments and on the inventory record only.
ArgumentGates == {"attributes", "newip", "runpuppet"}

\* Nothing has been changed by the call.
Untouched ==
    /\ mig.drbd = {}
    /\ mig.defined = {mig.src}
    /\ mig.running = mig.src
    /\ mig.inv = mig.snap
    /\ mig.staged = mig.snap.xen_host
    /\ mig.commits = 0

\* C13: a migration whose gates do not all pass is rejected before anything
\* is changed: attributes that differ from the live values give
\* InconsistentAttributeError; newip without offline and runpuppet, or
\* runpuppet without offline, give IGVMError; no DRBD session is started,
\* nothing is defined on the destination, the VM stays defined and running
\* on the source, and nothing is committed.
C13_RejectedBeforeMutation ==
    /\ (\E g \in ArgumentGates : ~GatePasses(g, mig)) =>
            mig.pc \in {"preflight", "rejected"}
    /\ mig.pc = "rejected" =>
            /\ Untouched
            /\ mig.gate = "attributes" => mig.err = "InconsistentAttributeError"
            /\ mig.gate \in {"newip", "runpuppet"} => mig.err = "IGVMError"

\* An online migration with runpuppet has been rejected.
C13_Witness ==
    /\ mig.pc = "rejected"
    /\ mig.gate = "runpuppet"
    /\ ~mig.offline
    /\ ~mig.newip
    /\ GatePasses("attributes", mig)

\* C14: after a migration that has failed, at whatever step, the inventory
\* record equals its snapshot from before the call, with xen_host still the
\* source; the VM is defined on the source and not on the destination;
\* nothing has been committed.
C14_FailedMigrationLeavesSource ==
    mig.pc \in {"failed", "rejected"} =>
        /\ mig.inv = mig.snap
        /\ mig.inv.xen_host = mig.src
        /\ mig.commits = 0
        /\ mig.src \in mig.defined
        /\ mig.dst \notin mig.defined

\* C14, for the failures whose rollback has done all it attempts.
C14_FailedAndUnwound ==
    (mig.pc = "failed" /\ mig.undone) =>
        /\ mig.src \in mig.defined
        /\ mig.dst \notin mig.defined

\* C14, the inventory part alone.
C14_InventoryUntouched ==
    mig.pc \in {"failed", "rejected"} =>
        /\ mig.inv = mig.snap
        /\ mig.inv.xen_host = mig.src
        /\ mig.commits = 0

\* C15: after a successful migration the committed inventory has xen_host =
\* destination and is not dirty, the VM is defined and running on the
\* destination and not defined on the source; after a successful migration
\* back, the inventory record and the VM sets of both hypervisors are the
\* original ones.
C15_SuccessfulMigrationMovesVm ==
    mig.pc = "done" =>
        /\ mig.inv.xen_host = mig.dst
        /\ mig.staged = mig.inv.xen_host
        /\ mig.commits = 1
        /\ mig.defined = {mig.dst}
        /\ mig.running = mig.dst
        /\ mig.round = 2 =>
              /\ mig.inv = mig.origin
              /\ mig.defined = {mig.origin.xen_host}
              /\ mig.running = mig.origin.xen_host

\* An offline migration followed by a migration back, both successful.
C15_Witness ==
    /\ mig.pc = "done"
    /\ mig.round = 2
    /\ mig.offline

(***************************************************************************)
(* Host.__eq__ and Host.__hash__ (igvm/balance/models.py).                 *)
(* An object is its class, its hostname and whether its inventory data has *)
(* been fetched; a hostname is a string, here a sequence of characters.    *)
(***************************************************************************)
\* Hostnames have up to MaxNameLen characters.
MaxNameLen == 2

Chars == {1, 2}

RECURSIVE Strings(_)
Strings(n) ==
    IF n = 0 THEN {<<>>}
    ELSE Strings(n - 1) \cup {Append(s, c) : s \in Strings(n - 1), c \in Chars}

Hostnames == Strings(MaxNameLen) \ {<<>>}

\* Host and its subclasses; "str" is an object that is no Host.
HostClasses == {"Host", "Hypervisor", "VM"}

isinstance_Host(o) == o.cls \in HostClasses

\* hash() of a string: a function of its characters, with collisions.
RECURSIVE hash_str(_)
hash_str(s) ==
    IF s = <<>> THEN 0
    ELSE (31 * hash_str(SubSeq(s, 1, Len(s) - 1)) + s[Len(s)]) % 5

\* Faulty variant: objects of different classes never compare equal.
Host_eq_SameClass(self, other) ==
    IF isinstance_Host(other)
    THEN IF self.hostname = other.hostname /\ self.cls = other.cls
         THEN "True" ELSE "None"
    ELSE "False"

\* Host.__eq__: True for a Host with the same hostname; the function falls
\* off its end, returning None, for a Host with another hostname; False for
\* an object that is no Host.
Host_eq(self, other) ==
    IF isinstance_Host(other)
    THEN IF self.hostname = other.hostname THEN "True" ELSE "None"
    ELSE "False"

\* Host.__hash__
Host_hash(self) == hash_str(self.hostname)

\* The truth value of a Python object.
Truthy(v) == v = "True"

Objects ==
    [cls : HostClasses, hostname : Hostnames, fetched : BOOLEAN]
    \cup [cls : {"str"}, hostname : Hostnames, fetched : {FALSE}]

\* self == other, hash(self), and hash(other) when other is a Host.
Compare ==
    /\ cmp.pc = "called"
    /\ cmp' = [cmp EXCEPT
          !.pc = "compared",
          !.eq = Host_eq(cmp.self, cmp.other),
          !.hashSelf = Host_hash(cmp.self),
          !.hashOther = IF isinstance_Host(cmp.other)
                        THEN Host_hash(cmp.other) ELSE hash_str(cmp.other.hostname)]
    /\ UNCHANGED rest_cmp

InitCompare ==
    /\ DrbdIdle
    /\ IdleExcept("cmp")
    /\ \E a \in Objects, b \in Objects :
          /\ isinstance_Host(a)
          /\ cmp = [pc |-> "called", self |-> a, other |-> b, eq |-> "none",
                    hashSelf |-> 0, hashOther |-> 0]

SpecCompare == InitCompare /\ [][Compare]_vars

\* C16: two Host objects are equal exactly when their hostnames are equal;
\* equal objects have equal hashes; a Host compared with an object that is
\* no Host gives False; the class and the fetched data play no part.
C16_EqualityByHostname ==
    cmp.pc = "compared" =>
        /\ isinstance_Host(cmp.other) =>
              (Truthy(cmp.eq) <=> cmp.self.hostname = cmp.other.hostname)
        /\ Truthy(cmp.eq) => cmp.hashSelf = cmp.hashOther
        /\ ~isinstance_Host(cmp.other) => cmp.eq = "False"

\* A Host and a Hypervisor with the same hostname, one with fetched data and
\* one without, have been compared and are equal.
C16_Witness ==
    /\ cmp.pc = "compared"
    /\ cmp.self.cls = "Host"
    /\ cmp.other.cls = "Hypervisor"
    /\ cmp.self.fetched # cmp.other.fetched
    /\ cmp.self.hostname = cmp.other.hostname
    /\ Truthy(cmp.eq)

(***************************************************************************)
(* Host: the inventory data of one object, fetched on demand               *)
(* (igvm/balance/models.py).  sc.get(hostname) returns the record the      *)
(* inventory has at that moment, or raises.                                *)
(***************************************************************************)
\* At most MaxReads attribute reads are made on the object.
MaxReads == 3

\* The records the inventory can hold for the hostname, by version.
Versions == {"v1", "v2"}

InventoryData(v) ==
    LET n == IF v = "v1" THEN 1 ELSE 2
    IN [memory |-> 1024 * n, num_cpu |-> n, disk_size_gib |-> 10 * n]

HostKeys == {"memory", "num_cpu", "disk_size_gib"}

\* Faulty variant: the data is fetched again although it is there.
NeedsFetchAlways(data) == TRUE

\* if self._serveradmin_data is None
NeedsFetch(data) == data = "None"

\* The value an attribute read computes from self._serveradmin_data.
HostValue(op, key, d) ==
    CASE op = "__getitem__" -> d[key]
      [] op = "keys" -> DOMAIN d
      [] op = "get_memory" -> d["memory"]
      [] op = "get_cpus" -> d["num_cpu"]
      [] op = "get_disk_size" -> d["disk_size_gib"] * 1024

\* One attribute read: _fetch_serveradmin_data(), then the value computed
\* from self._serveradmin_data.  `out` is what sc.get does if it is called.
HostRead(op, key, out) ==
    /\ hst.pc = "alive"
    /\ Len(hst.reads) < MaxReads
    /\ ~NeedsFetch(hst.data) => out = hst.data
    /\ LET fetch == NeedsFetch(hst.data)
           data == IF fetch /\ out # "raise" THEN out
                   ELSE IF fetch THEN "None" ELSE hst.data
           result == IF data = "None" THEN [op |-> op, raised |-> TRUE, from |-> "None",
                                            value |-> 0, lookup |-> fetch]
                     ELSE [op |-> op, raised |-> FALSE, from |-> data,
                           value |-> HostValue(op, key, InventoryData(data)),
                           lookup |-> fetch]
       IN hst' = [hst EXCEPT
              !.data = data,
              !.lookups = IF fetch THEN @ + 1 ELSE @,
              !.fetched = IF fetch /\ out # "raise" THEN Append(@, out) ELSE @,
              !.reads = Append(@, result)]
    /\ UNCHANGED rest_hst

Host_getitem ==
    \E key \in HostKeys, out \in Versions \cup {"raise"} :
        HostRead("__getitem__", key, out)

Host_keys ==
    \E out \in Versions \cup {"raise"} : HostRead("keys", "", out)

Host_get_memory ==
    \E out \in Versions \cup {"raise"} : HostRead("get_memory", "memory", out)

Host_get_cpus ==
    \E out \in Versions \cup {"raise"} : HostRead("get_cpus", "num_cpu", out)

Host_get_disk_size ==
    \E out \in Versions \cup {"raise"} :
        HostRead("get_disk_size", "disk_size_gib", out)

\* Host.__init__: no data, no lookup made.
InitHost ==
    /\ DrbdIdle
    /\ IdleExcept("hst")
    /\ hst = [pc |-> "alive", data |-> "None", lookups |-> 0, fetched |-> <<>>,
              reads |-> <<>>]

NextHost ==
    \/ Host_getitem
    \/ Host_keys
    \/ Host_get_memory
    \/ Host_get_cpus
    \/ Host_get_disk_size

SpecHost == InitHost /\ [][NextHost]_vars

\* The reads that returned a value; the reads that called sc.get.
ServedReads == {i \in 1..Len(hst.reads) : ~hst.reads[i].raised}

LookupReads == {i \in 1..Len(hst.reads) : hst.reads[i].lookup}

\* C17 as stated: the inventory lookup is made on the first attribute read
\* and at most once in the life of the object, whatever the reads are, and
\* every later read is served from the value fetched first.
C17_LookupAtMostOnce ==
    /\ hst.lookups <= 1
    /\ hst.reads # <<>> => hst.reads[1].lookup
    /\ \A i \in ServedReads : hst.fetched # <<>> /\ hst.reads[i].from = hst.fetched[1]

\* C17, amended: the lookup is made on the first attribute read, and again
\* on a later read only as long as no lookup has succeeded; at most one
\* lookup succeeds, no lookup is made after it, and every read that returns
\* is served from the value that lookup fetched.
C17_OneSuccessfulLookup ==
    /\ Len(hst.fetched) <= 1
    /\ hst.reads # <<>> => hst.reads[1].lookup
    /\ hst.lookups = Cardinality(LookupReads)
    /\ \A i \in LookupReads : \A j \in 1..(i - 1) : hst.reads[j].raised
    /\ \A i \in ServedReads : hst.fetched # <<>> /\ hst.reads[i].from = hst.fetched[1]
    /\ \A i \in ServedReads : \A j \in (i + 1)..Len(hst.reads) :
            ~hst.reads[j].lookup /\ ~hst.reads[j].raised

\* The first lookup failed, the second succeeded, and a third read was served
\* from the fetched value without a lookup.
C17_Witness ==
    /\ Len(hst.reads) = 3
    /\ hst.reads[1].raised
    /\ hst.reads[2].lookup /\ ~hst.reads[2].raised
    /\ ~hst.reads[3].lookup /\ hst.reads[3].from = hst.fetched[1]
    /\ hst.lookups = 2

(***************************************************************************)
(* disk_set (igvm/commands.py).  The size argument is text: an optional    *)
(* sign, decimal digits, an optional unit G.                               *)
(***************************************************************************)
\* The size text has up to MaxDigits digits; the inventory disk size is up
\* to MaxDisk GiB.
MaxDigits == 2

MaxDisk == 3

Digits == {"0", "1", "2"}

DigitVal(c) == CASE c = "0" -> 0 [] c = "1" -> 1 [] c = "2" -> 2

RECURSIVE DigitStrings(_)
DigitStrings(n) ==
    IF n = 0 THEN {<<>>}
    ELSE DigitStrings(n - 1)
         \cup {Append(s, c) : s \in DigitStrings(n - 1), c \in Digits}

\* The size texts: "12", "+1", "-2G", ...
SizeTexts ==
    {sign \o digits \o unit :
        sign \in {<<>>, <<"+">>, <<"-">>},
        digits \in DigitStrings(MaxDigits) \ {<<>>},
        unit \in {<<>>, <<"G">>}}

\* size.startswith(c)
startswith(size, c) == size # <<>> /\ size[1] = c

\* size[1:]
Tail1(size) == SubSeq(size, 2, Len(size))

RECURSIVE Decimal(_)
Decimal(s) ==
    IF s = <<>> THEN 0
    ELSE 10 * Decimal(SubSeq(s, 1, Len(s) - 1)) + DigitVal(s[Len(s)])

\* parse_size(text, unit): the number in `unit`s ('g' or 'm'); a text
\* without unit is taken in `unit`s, a G is 1024 M.
parse_size(text, unit) ==
    IF text # <<>> /\ text[Len(text)] = "G"
    THEN Decimal(SubSeq(text, 1, Len(text) - 1)) * (IF unit = "m" THEN 1024 ELSE 1)
    ELSE Decimal(text)

\* Faulty variant: the inventory is set and committed before the file
\* system is grown.
DiskSetOrderCommitEarly == << "lvresize", "blockresize", "commit", "xfs_growfs" >>

\* lvresize, virsh blockresize, xfs_growfs, then the inventory update.
DiskSetOrder == << "lvresize", "blockresize", "xfs_growfs", "commit" >>

\* The tests before anything is run.
disk_set_check ==
    /\ ds.pc = "called"
    /\ LET size == ds.size
           current_size_gib == ds.inv
           new_size_gib ==
               IF startswith(size, "+")
               THEN current_size_gib + parse_size(Tail1(size), "g")
               ELSE parse_size(size, "g")
       IN IF ~ds.defined
          THEN ds' = [ds EXCEPT !.pc = "raised", !.err = "InvalidStateError"]
          ELSE IF startswith(size, "-") \/ new_size_gib < current_size_gib
          THEN ds' = [ds EXCEPT !.pc = "raised", !.err = "NotImplementedError"]
          ELSE IF new_size_gib = ds.inv
          THEN ds' = [ds EXCEPT !.pc = "raised", !.err = "Warning"]
          ELSE ds' = [ds EXCEPT !.pc = DiskSetOrder[1], !.new = new_size_gib]
    /\ UNCHANGED rest_ds

\* One of the commands, or the inventory update: vm.admintool[...] = new,
\* then commit().  A failure ends disk_set with the error.
disk_set_step ==
    /\ ds.pc \in Range(DiskSetOrder)
    /\ \E ok \in BOOLEAN :
         ds' = [ds EXCEPT
            !.pc = IF ok THEN SuccIn(DiskSetOrder, ds.pc, "returned") ELSE "raised",
            !.err = IF ok THEN @ ELSE "error",
            !.ops = Append(@, [op |-> ds.pc, ok |-> ok]),
            !.staged = IF ds.pc = "commit" THEN ds.new ELSE @,
            !.inv = IF ds.pc = "commit" /\ ok THEN ds.new ELSE @]
    /\ UNCHANGED rest_ds

disk_set == disk_set_check \/ disk_set_step

InitDisk ==
    /\ DrbdIdle
    /\ IdleExcept("ds")
    /\ \E size \in SizeTexts, cur \in 1..MaxDisk, defined \in BOOLEAN :
          ds = [pc |-> "called", size |-> size, defined |-> defined,
                inv |-> cur, inv0 |-> cur, staged |-> cur, new |-> cur,
                ops |-> <<>>, err |-> "none"]

SpecDisk == InitDisk /\ [][disk_set]_vars

\* The requested size, as the claim reads the text.
Requested ==
    IF startswith(ds.size, "+") THEN ds.inv0 + parse_size(Tail1(ds.size), "g")
    ELSE parse_size(ds.size, "g")

InventoryAsBefore == ds.inv = ds.inv0 /\ ds.staged = ds.inv0

DiskCommands == << "lvresize", "blockresize", "xfs_growfs" >>

\* C18: disk_set raises NotImplementedError for a size with '-' prefix or an
\* absolute size below the inventory disk_size_gib, and Warning for a size
\* equal to it, each time before any resize and with the inventory as it
\* was; for a larger size it runs lvresize, virsh blockresize and xfs_growfs
\* in that order and only then sets and commits disk_size_gib, so that a
\* failure of any of them leaves the inventory uncommitted.
C18_DiskSetOrder ==
    /\ (ds.pc # "idle" /\ ds.defined
            /\ (startswith(ds.size, "-") \/ Requested <= ds.inv0)) =>
          /\ ds.pc \in {"called", "raised"}
          /\ ds.ops = <<>>
          /\ InventoryAsBefore
          /\ ds.pc = "raised" =>
                ds.err = (IF startswith(ds.size, "-") \/ Requested < ds.inv0
                          THEN "NotImplementedError" ELSE "Warning")
    /\ ds.pc # "idle" =>
          /\ \A i \in 1..Len(ds.ops) :
                i <= Len(DiskCommands) => ds.ops[i].op = DiskCommands[i]
          /\ ~InventoryAsBefore =>
                /\ Len(ds.ops) > Len(DiskCommands)
                /\ \A i \in 1..Len(DiskCommands) : ds.ops[i].ok
                /\ ds.staged = Requested
          /\ ds.pc = "raised" => ds.inv = ds.inv0
          /\ ds.pc = "returned" => ds.inv = Requested /\ Requested > ds.inv0

\* xfs_growfs has failed after the two resizes: the inventory is as before.
C18_Witness ==
    /\ ds.pc = "raised"
    /\ Len(ds.ops) = 3
    /\ ds.ops[3].op = "xfs_growfs"
    /\ ~ds.ops[3].ok
    /\ startswith(ds.size, "+")
    /\ InventoryAsBefore

(***************************************************************************)
(* vm_sync (igvm/commands.py): the attributes the hypervisor reports are   *)
(* written to the inventory where they differ.                             *)
(***************************************************************************)
AttrValues == {1, 2}

\* The attribute maps a hypervisor can report: values for some or all of
\* the attributes.
Reports == UNION {[S -> AttrValues] : S \in SUBSET SyncAttrs}

\* Faulty variant: the inventory is committed whether or not a value changed.
NeedsCommitAlways(changed) == TRUE

\* if changed:
NeedsCommit(changed) == changed # {}

\* The whole function.  vm.admintool holds the committed record when the VM
\* object is made; the assignments are staged and commit() writes them.
vm_sync ==
    /\ vs.pc = "called"
    /\ IF ~vs.defined
       THEN vs' = [vs EXCEPT !.pc = "raised", !.err = "InvalidStateError"]
       ELSE LET attributes == vs.reported
                changed == {a \in DOMAIN attributes : vs.inv[a] # attributes[a]}
                staged == [a \in SyncAttrs |->
                              IF a \in changed THEN attributes[a] ELSE vs.inv[a]]
            IN IF NeedsCommit(changed)
               THEN \E ok \in BOOLEAN :
                      vs' = [vs EXCEPT
                         !.pc = IF ok THEN "returned" ELSE "raised",
                         !.err = IF ok THEN @ ELSE "error",
                         !.changed = changed,
                         !.commits = @ + 1,
                         !.inv = IF ok THEN staged ELSE @]
               ELSE vs' = [vs EXCEPT !.pc = "returned", !.changed = changed]
    /\ UNCHANGED rest_vs

\* vm_sync is called again right after it has returned; the hypervisor
\* reports what it reported before.
vm_sync_again ==
    /\ vs.pc = "returned"
    /\ vs.run = 1
    /\ vs' = [vs EXCEPT !.pc = "called", !.run = 2, !.before = vs.inv,
                        !.first = vs.changed, !.changed = {}, !.commits = 0]
    /\ UNCHANGED rest_vs

InitSync ==
    /\ DrbdIdle
    /\ IdleExcept("vs")
    /\ \E inv \in [SyncAttrs -> AttrValues], rep \in Reports, defined \in BOOLEAN :
          vs = [pc |-> "called", run |-> 1, defined |-> defined, inv |-> inv,
                before |-> inv, reported |-> rep, changed |-> {}, first |-> {},
                commits |-> 0, err |-> "none"]

NextSync == vm_sync \/ vm_sync_again

SpecSync == InitSync /\ [][NextSync]_vars

\* C19: when vm_sync has returned, the committed inventory value of every
\* reported attribute is the hypervisor's value; commit has been called
\* once if an attribute differed and not at all otherwise; a second vm_sync
\* right afterwards changes no attribute and commits nothing.
C19_SyncIsIdempotent ==
    vs.pc = "returned" =>
        /\ \A a \in DOMAIN vs.reported : vs.inv[a] = vs.reported[a]
        /\ \A a \in SyncAttrs \ DOMAIN vs.reported : vs.inv[a] = vs.before[a]
        /\ vs.commits =
              (IF \E a \in DOMAIN vs.reported : vs.before[a] # vs.reported[a]
               THEN 1 ELSE 0)
        /\ vs.run = 2 => (vs.inv = vs.before /\ vs.commits = 0 /\ vs.changed = {})

\* The first vm_sync changed two attributes, the second has returned.
C19_Witness ==
    /\ vs.pc = "returned"
    /\ vs.run = 2
    /\ Cardinality(vs.first) = 2

(***************************************************************************)
(* mem_set (igvm/commands.py).  The size text is in MiB unless it has a    *)
(* unit.                                                                   *)
(***************************************************************************)
\* The inventory memory sizes, in MiB.
MemSizes == {1, 2, 1024, 2048}

\* if offline and not vm.is_running(): offline = False
EffectiveOffline(offline, running) == offline /\ running

\* Faulty variant: the memory is set before the VM is shut down.
MemSetPlanSetFirst(offline) ==
    IF offline THEN << "set_memory", "shutdown", "start" >> ELSE << "set_memory" >>

\* if offline: vm.shutdown(); vm.set_memory(new_memory); if offline: vm.start()
MemSetPlan(offline) ==
    IF offline THEN << "shutdown", "set_memory", "start" >> ELSE << "set_memory" >>

\* The tests before anything is done to the VM.
mem_set_check ==
    /\ ms.pc = "called"
    /\ LET size == ms.size
           new_memory ==
               IF startswith(size, "+") THEN ms.memory + parse_size(Tail1(size), "m")
               ELSE IF startswith(size, "-") THEN ms.memory - parse_size(Tail1(size), "m")
               ELSE parse_size(size, "m")
           offline == EffectiveOffline(ms.offline, ms.running)
       IN IF ~ms.defined
          THEN ms' = [ms EXCEPT !.pc = "raised", !.err = "InvalidStateError"]
          ELSE IF new_memory = ms.memory
          THEN ms' = [ms EXCEPT !.pc = "raised", !.err = "Warning"]
          ELSE ms' = [ms EXCEPT !.pc = MemSetPlan(offline)[1], !.offline = offline,
                                !.new = new_memory]
    /\ UNCHANGED rest_ms

\* vm.shutdown(), vm.set_memory(new_memory) or vm.start(); a failure ends
\* mem_set with the error.
mem_set_step ==
    /\ ms.pc \notin {"idle", "called"}
    /\ ms.pc \in Range(MemSetPlan(ms.offline))
    /\ \E ok \in BOOLEAN :
         ms' = [ms EXCEPT
            !.pc = IF ok THEN SuccIn(MemSetPlan(ms.offline), ms.pc, "returned")
                   ELSE "raised",
            !.err = IF ok THEN @ ELSE "error",
            !.ops = Append(@, [op |-> ms.pc, ok |-> ok]),
            !.running = IF ok /\ ms.pc = "shutdown" THEN FALSE
                        ELSE IF ok /\ ms.pc = "start" THEN TRUE ELSE @]
    /\ UNCHANGED rest_ms

mem_set == mem_set_check \/ mem_set_step

InitMem ==
    /\ DrbdIdle
    /\ IdleExcept("ms")
    /\ \E size \in SizeTexts, mem \in MemSizes, offline, running, defined \in BOOLEAN :
          ms = [pc |-> "called", size |-> size, memory |-> mem, new |-> mem,
                offline |-> offline, offline0 |-> offline,
                running |-> running, running0 |-> running,
                defined |-> defined, ops |-> <<>>, err |-> "none"]

SpecMem == InitMem /\ [][mem_set]_vars

\* The requested memory size, as the claim reads the text.
RequestedMem ==
    IF startswith(ms.size, "+") THEN ms.memory + parse_size(Tail1(ms.size), "m")
    ELSE IF startswith(ms.size, "-") THEN ms.memory - parse_size(Tail1(ms.size), "m")
    ELSE parse_size(ms.size, "m")

OpNames == [i \in 1..Len(ms.ops) |-> ms.ops[i].op]

\* C20: mem_set raises Warning and neither shuts down, sets the memory nor
\* starts when the requested size, absolute or relative, equals the
\* inventory memory; with offline=True on a running VM the operations are
\* shutdown, set_memory, start in that order; with offline=True on a VM
\* that does not run the flag is dropped and the VM is neither shut down
\* nor started.
C20_MemSetOrder ==
    /\ (ms.pc # "idle" /\ ms.defined /\ RequestedMem = ms.memory) =>
          /\ ms.pc \in {"called", "raised"}
          /\ ms.ops = <<>>
          /\ ms.pc = "raised" => ms.err = "Warning"
    /\ (ms.pc # "idle" /\ ms.offline0 /\ ms.running0) =>
          /\ IsPrefix(OpNames, << "shutdown", "set_memory", "start" >>)
          /\ ms.pc = "returned" => Len(ms.ops) = 3
    /\ (ms.pc \notin {"idle", "called"} /\ ms.offline0 /\ ~ms.running0) =>
          /\ ms.defined /\ RequestedMem # ms.memory => ~ms.offline
          /\ IsPrefix(OpNames, << "set_memory" >>)
          /\ ms.pc = "returned" => Len(ms.ops) = 1

\* offline=True on a running VM: shut down, memory set, started.
C20_Witness ==
    /\ ms.pc = "returned"
    /\ ms.offline0
    /\ ms.running0
    /\ startswith(ms.size, "-")
    /\ Len(ms.ops) = 3

(***************************************************************************)
(* vm_start, vm_stop, vm_restart and vm_delete (igvm/commands.py).         *)
(***************************************************************************)
VmCommands == {"vm_start", "vm_stop", "vm_restart", "vm_delete"}

\* The inventory states a VM can have before the command.
InventoryStates == {"online", "maintenance", "new"}

\* Faulty variant: the test is left out.
check_defined_skipped(defined) == "none"

\* _check_defined(vm): the error it raises, if any.
check_defined(defined) == IF defined THEN "none" ELSE "InvalidStateError"

\* Faulty variant: the inventory is written before the storage is destroyed.
VmDeletePlanCommitEarly == << "undefine_vm", "commit", "destroy_vm_storage" >>

\* undefine_vm, destroy_vm_storage, then state = 'retired' and commit().
VmDeletePlan == << "undefine_vm", "destroy_vm_storage", "commit" >>

\* What a command does after its tests, for a VM that is running or not:
\* an error to raise, or the operations to perform.
VmCommandError(cmd, running) ==
    CASE cmd = "vm_restart" /\ ~running -> "InvalidStateError"
      [] cmd = "vm_delete" /\ running -> "InvalidStateError"
      [] OTHER -> "none"

VmCommandPlan(cmd, force, running) ==
    CASE cmd = "vm_start" -> IF running THEN <<>> ELSE << "start" >>
      [] cmd = "vm_stop" ->
            IF ~running THEN <<>>
            ELSE IF force THEN << "stop_vm_force" >> ELSE << "shutdown" >>
      [] cmd = "vm_restart" ->
            IF force THEN << "stop_vm_force", "disconnect", "start" >>
            ELSE << "shutdown", "start" >>
      [] cmd = "vm_delete" -> VmDeletePlan

\* What an operation does to the VM when it succeeds.
VmOpEff(op, v) ==
    CASE op = "start" -> [v EXCEPT !.running = TRUE]
      [] op \in {"shutdown", "stop_vm_force"} -> [v EXCEPT !.running = FALSE]
      [] op = "undefine_vm" -> [v EXCEPT !.defined = FALSE]
      [] op = "destroy_vm_storage" -> [v EXCEPT !.storage = FALSE]
      [] op = "commit" -> [v EXCEPT !.state = "retired"]
      [] OTHER -> v

\* VM(vm_hostname), _check_defined(vm) and the test of vm.is_running().
vm_command_check ==
    /\ vc.pc = "called"
    /\ LET e1 == check_defined(vc.defined)
           e2 == VmCommandError(vc.cmd, vc.running)
           plan == VmCommandPlan(vc.cmd, vc.force, vc.running)
       IN IF e1 # "none"
          THEN vc' = [vc EXCEPT !.pc = "raised", !.err = e1]
          ELSE IF e2 # "none"
          THEN vc' = [vc EXCEPT !.pc = "raised", !.err = e2]
          ELSE vc' = [vc EXCEPT !.plan = plan,
                                !.pc = IF plan = <<>> THEN "returned" ELSE plan[1]]
    /\ UNCHANGED rest_vc

\* One operation of the command; a failure ends the command with the error.
\* The inventory assignment is staged before commit() is called.
vm_command_step ==
    /\ vc.pc \notin {"idle", "called"}
    /\ vc.pc \in Range(vc.plan)
    /\ \E ok \in BOOLEAN :
         LET v == IF vc.pc = "commit" THEN [vc EXCEPT !.staged = "retired"] ELSE vc
         IN vc' = [(IF ok THEN VmOpEff(vc.pc, v) ELSE v) EXCEPT
                !.pc = IF ok THEN SuccIn(vc.plan, vc.pc, "returned") ELSE "raised",
                !.err = IF ok THEN @ ELSE "error",
                !.ops = Append(@, [op |-> vc.pc, ok |-> ok])]
    /\ UNCHANGED rest_vc

vm_command == vm_command_check \/ vm_command_step

\* A VM that runs is defined.
InitVm ==
    /\ DrbdIdle
    /\ IdleExcept("vc")
    /\ \E cmd \in VmCommands, force, defined, running \in BOOLEAN,
          state \in InventoryStates :
          /\ running => defined
          /\ cmd \in {"vm_start", "vm_delete"} => ~force
          /\ vc = [pc |-> "called", cmd |-> cmd, force |-> force,
                   defined |-> defined, defined0 |-> defined,
                   running |-> running, running0 |-> running,
                   storage |-> TRUE, state |-> state, state0 |-> state,
                   staged |-> state, plan |-> <<>>, ops |-> <<>>, err |-> "none"]

SpecVm == InitVm /\ [][vm_command]_vars

VmOpNames == [i \in 1..Len(vc.ops) |-> vc.ops[i].op]

\* C21: vm_delete on a running VM raises InvalidStateError and neither
\* undefines, destroys storage nor changes the inventory; on a defined,
\* stopped VM it undefines, then destroys the storage, then sets the state
\* to 'retired' and commits; the inventory state becomes 'retired' only
\* after both hypervisor steps have succeeded.
C21_DeleteOrder ==
    (vc.pc # "idle" /\ vc.cmd = "vm_delete") =>
        /\ vc.running0 =>
              /\ vc.pc \in {"called", "raised"}
              /\ vc.pc = "raised" => vc.err = "InvalidStateError"
              /\ vc.ops = <<>>
              /\ vc.defined /\ vc.storage
              /\ vc.state = vc.state0 /\ vc.staged = vc.state0
        /\ (vc.defined0 /\ ~vc.running0) =>
              /\ IsPrefix(VmOpNames, << "undefine_vm", "destroy_vm_storage", "commit" >>)
              /\ vc.pc = "returned" =>
                    (Len(vc.ops) = 3 /\ vc.state = "retired" /\ ~vc.defined /\ ~vc.storage)
        /\ (vc.state # vc.state0 \/ vc.staged # vc.state0) =>
              /\ Len(vc.ops) = 3
              /\ vc.ops[1].ok /\ vc.ops[2].ok
              /\ ~vc.defined /\ ~vc.storage
        /\ vc.pc = "raised" => vc.state = vc.state0

\* A defined, stopped VM has been deleted.
C21_Witness ==
    /\ vc.cmd = "vm_delete"
    /\ vc.pc = "returned"
    /\ vc.defined0
    /\ vc.state = "retired"

(***************************************************************************)
(* The commands of igvm/commands.py together: one of them is called.       *)
(***************************************************************************)
InitCommands == InitDisk \/ InitSync \/ InitMem \/ InitVm

NextCommands == disk_set \/ NextSync \/ mem_set \/ vm_command

SpecCommands == InitCommands /\ [][NextCommands]_vars

\* C30: each of mem_set, disk_set, vm_start, vm_stop, vm_restart, vm_delete
\* and vm_sync raises InvalidStateError when the VM is not defined on its
\* hypervisor, before any operation that changes the hypervisor or the VM
\* and before any inventory write or commit.
C30_UndefinedVmRejected ==
    /\ (ms.pc # "idle" /\ ~ms.defined) =>
          /\ ms.pc \in {"called", "raised"}
          /\ ms.pc = "raised" => ms.err = "InvalidStateError"
          /\ ms.ops = <<>>
          /\ ms.running = ms.running0
    /\ (ds.pc # "idle" /\ ~ds.defined) =>
          /\ ds.pc \in {"called", "raised"}
          /\ ds.pc = "raised" => ds.err = "InvalidStateError"
          /\ ds.ops = <<>>
          /\ InventoryAsBefore
    /\ (vs.pc # "idle" /\ ~vs.defined) =>
          /\ vs.pc \in {"called", "raised"}
          /\ vs.pc = "raised" => vs.err = "InvalidStateError"
          /\ vs.commits = 0
          /\ vs.inv = vs.before
    /\ (vc.pc # "idle" /\ ~vc.defined0) =>
          /\ vc.pc \in {"called", "raised"}
          /\ vc.pc = "raised" => vc.err = "InvalidStateError"
          /\ vc.ops = <<>>
          /\ vc.running = vc.running0 /\ vc.storage
          /\ vc.state = vc.state0 /\ vc.staged = vc.state0

\* vm_stop has been called for a VM that is not defined and has raised.
C30_Witness ==
    /\ vc.pc = "raised"
    /\ vc.cmd = "vm_stop"
    /\ ~vc.defined0
    /\ vc.err = "InvalidStateError"


(***************************************************************************)
(* Rollback when an inverse fails.                                         *)
(***************************************************************************)
\* A failed call at `a` of session s is followed by a call at `b`, or `b` is next.
AttemptedAfter(s, a, b) ==
    \/ pc[s] = b
    \/ \E i, j \in DOMAIN trace :
          /\ i < j
          /\ trace[i].s = s /\ trace[i].at = a /\ ~trace[i].ok
          /\ trace[j].s = s /\ trace[j].at = b

\* C22: during the rollback of a failed start(), a failing inverse does not
\* stop the unwinding: after a failed drbdadm down the dmsetup resume is
\* attempted, after a failed dmsetup resume the rm of the resource file and
\* after a failed rm the dmsetup remove of the shim, after a failed dmsetup
\* remove the lvremove of the meta LV; when start() has raised, the inverse of
\* every completed step has been attempted whichever of them failed, and
\* neither the scope body nor stop() has run.
C22_FailedInverseDoesNotStopRollback ==
    \A s \in Sessions :
        /\ "Rdown" \in Failed(s, RbSteps) => AttemptedAfter(s, "Rdown", "Rresume")
        /\ "Rresume" \in Failed(s, RbSteps) => AttemptedAfter(s, "Rresume", "Rrm")
        /\ "Rrm" \in Failed(s, RbSteps) => AttemptedAfter(s, "Rrm", "Rdmremove")
        /\ "Rdmremove" \in Failed(s, RbSteps)
             => AttemptedAfter(s, "Rdmremove", "Rlvremove")
        /\ Failed(s, RbSteps) # {} =>
            /\ pc[s] \in RbSteps \cup {"raised"}
            /\ bodyRes[s] = "none" /\ stopCalls[s] = 0
        /\ (pc[s] = "raised" /\ Failed(s, RbSteps) # {}) =>
            /\ Issued(s, InverseSteps) = ExpectedInverses(s)
            /\ exc[s] # "none"

C22_Witness ==
    \E s \in Sessions :
        /\ pc[s] = "raised"
        /\ Failed(s, FwdSteps) = {"T5"}
        /\ Failed(s, RbSteps) = {"Rdown", "Rresume", "Rrm", "Rdmremove", "Rlvremove"}
        /\ Issued(s, InverseSteps)
             = <<"Rdown", "Rresume", "Rrm", "Rdmremove", "Rlvremove">>


(***************************************************************************)
(* The two roles.                                                          *)
(***************************************************************************)
RoleSteps == {"T3ow", "T3wc", "T3pr"}

StatQueries == {"statSelf", "statPeer"}

Comparable(p, q) == IsPrefix(p, q) \/ IsPrefix(q, p)

\* The role step sits between "drbdadm up" and the load of the DRBD table;
\* the secondary promotes itself only after wait-connect has returned.
RoleStepInPlace(s) ==
    /\ IsPrefix(Issued(s, RoleSteps),
                IF s = "primary" THEN <<"T3ow">> ELSE <<"T3wc", "T3pr">>)
    /\ Issued(s, RoleSteps) # <<>> => "T2up" \in Completed(s)
    /\ "T3pr" \in Range(Issued(s, RoleSteps)) => "T3wc" \in Completed(s)
    /\ "T4" \in Range(Issued(s, FwdSteps)) =>
           (IF s = "primary" THEN "T3ow" ELSE "T3pr") \in Completed(s)

\* C23 as stated: the remote commands issued by start() for the primary and
\* for the secondary endpoint are the same, one by one, except at T3 (the
\* primary issues the overwrite-data-of-peer promotion, the secondary
\* wait-connect and then the promotion, never the promotion first).
C23_RolesDifferOnlyAtT3 ==
    /\ Comparable(Issued("primary", FwdSteps \ RoleSteps),
                  Issued("secondary", FwdSteps \ RoleSteps))
    /\ \A s \in Sessions : RoleStepInPlace(s)

\* C23 amended: the same, the stat queries of get_device_minor() left out
\* (they are issued only while the minor of a DRBD object is not cached yet).
C23_RolesDifferOnlyAtT3AndStat ==
    /\ Comparable(Issued("primary", FwdSteps \ (RoleSteps \cup StatQueries)),
                  Issued("secondary", FwdSteps \ (RoleSteps \cup StatQueries)))
    /\ \A s \in Sessions : RoleStepInPlace(s)

C23_Witness ==
    /\ pc["secondary"] = "body"
    /\ Issued("primary", RoleSteps) = <<"T3ow">>
    /\ Issued("secondary", RoleSteps) = <<"T3wc", "T3pr">>
    /\ Issued("primary", FwdSteps \ (RoleSteps \cup StatQueries))
         = Issued("secondary", FwdSteps \ (RoleSteps \cup StatQueries))
    /\ Len(Issued("primary", StatQueries)) = 2
    /\ Issued("secondary", StatQueries) = <<>>


(***************************************************************************)
(* The polling loop of wait_for_sync().                                    *)
(***************************************************************************)
\* C24: the polling loop decides only from the status line of the session's
\* own dev_minor: the line the loop stops at is a status line of that device,
\* and the loop ends on UpToDate/UpToDate only when that device reports it.
C24_OwnStatusLineOnly ==
    /\ status # NoLine => (status.kind = "status" /\ status.dev = minor)
    /\ "uptodate" \in wExit => (status.dev = minor /\ status.utd)


\* The status lines of device m in the file f, and the first of them.
OwnLines(f, m) == {i \in 1..Len(f) : f[i].kind = "status" /\ f[i].dev = m}

Listed(f, m) == OwnLines(f, m) # {}

OwnLine(f, m) == CHOOSE i \in OwnLines(f, m) : \A j \in OwnLines(f, m) : i <= j

\* /proc/drbd as the kernel writes it: one status line per device, the
\* devices in ascending order of their minors.
KernelOrder(f) ==
    \A i, j \in 1..Len(f) :
        (i < j /\ f[i].kind = "status" /\ f[j].kind = "status") => f[i].dev < f[j].dev

\* A step of the loop that has read /proc/drbd.
PollRead == wpc = "poll" /\ wpc' \in {"poll", "gate"} /\ KernelOrder(proc')

ExitsOnUpToDate ==
    (Listed(proc', minor) /\ proc'[OwnLine(proc', minor)].utd) => wpc' = "gate"

ExitsWhenNotListed == ~Listed(proc', minor) => wpc' = "gate"

KeepsPollingWithBar ==
    (/\ Listed(proc', minor)
     /\ ~proc'[OwnLine(proc', minor)].utd
     /\ OwnLine(proc', minor) + 2 <= Len(proc')
     /\ proc'[OwnLine(proc', minor) + 2].kind = "bar") => wpc' = "poll"

\* C25: the polling loop exits on the first poll whose status line for
\* dev_minor shows ds:UpToDate/UpToDate and on the first poll whose /proc/drbd
\* does not list the device (so it exits eventually when one of the two
\* eventually happens), and it goes on polling after a poll on which the
\* device reports another state with its progress bar present.
C25_LoopExit ==
    [][PollRead => (ExitsOnUpToDate /\ ExitsWhenNotListed /\ KeepsPollingWithBar)]_vars


\* The file just read lists the device, and the line two lines below the
\* device's status line is not a progress bar (or there is no such line).
NoBarPoll ==
    /\ Listed(proc', minor)
    /\ ~(/\ OwnLine(proc', minor) + 2 <= Len(proc')
         /\ proc'[OwnLine(proc', minor) + 2].kind = "bar")

\* C26: progressbar_found counts the polls on which the device's status line
\* has no progress-bar line two lines below it; the loop gives up on the
\* progress display, and goes to the wait-sync gate, on the poll that makes
\* this count five and on no earlier poll.
C26_GiveUpAtFifthPoll ==
    [][PollRead =>
         /\ progressbar_found'
              = (IF NoBarPoll THEN progressbar_found + 1 ELSE progressbar_found)
         /\ "nobar" \in wExit' <=> (NoBarPoll /\ progressbar_found' = MaxBarWait)
         /\ "nobar" \in wExit' => wpc' = "gate"]_vars


(***************************************************************************)
(* The suspension of the LV by take_over_device().                         *)
(***************************************************************************)
ResumeSteps == {"T5", "R5resume", "Rresume"}

\* take_over_device() of session s has ended after its suspend succeeded.
TakeOverEnded(s) ==
    /\ "T1" \in Completed(s)
    /\ pc[s] \notin TakeOverSteps \cup TakeOverRollback

LastOf(q) == q[Len(q)]

\* C27: when take_over_device() has ended, by returning or by raising, after
\* its dmsetup suspend succeeded, a dmsetup resume of the LV has been issued
\* after the suspend (the resume of T5 when it returns, the resume of the
\* outer except clause when it raises), and the LV is not suspended unless
\* the last of these resume commands failed.
C27_ResumedAfterSuspend ==
    \A s \in Sessions :
        TakeOverEnded(s) =>
            LET r == Entries(s, ResumeSteps) IN
            /\ r # <<>>
            /\ IndexOf(Issued(s, TakeOverSteps \cup TakeOverRollback), "T1")
                 < IndexOf(Issued(s, TakeOverSteps \cup TakeOverRollback), LastOf(r).at)
            /\ LastOf(r).at = (IF Failed(s, FwdSteps) = {} THEN "T5" ELSE "Rresume")
            /\ LastOf(r).ok => ~host[s].susp

C27_Witness ==
    \E s \in Sessions :
        /\ pc[s] = "raised"
        /\ Failed(s, FwdSteps) = {"T5"}
        /\ Failed(s, RbSteps) = {"R5load", "Rdown"}
        /\ Issued(s, ResumeSteps) = <<"T5", "Rresume">>
        /\ ~host[s].susp


(***************************************************************************)
(* The device-mapper table of the LV.                                      *)
(***************************************************************************)
\* C28: whenever drbdadm down is about to be issued, in the rollback of
\* take_over_device() or in stop(), the active table of the LV is the original
\* table, not the mapping onto the DRBD device; and after a failed start()
\* all of whose inverses succeeded, the active table is the original one and
\* the inactive slot does not hold the DRBD mapping.
C28_OriginalTableWhenDrbdGoesDown ==
    \A s \in Sessions :
        /\ pc[s] \in {"Rdown", "Sdown"} => host[s].active = "orig"
        /\ (pc[s] = "raised" /\ Failed(s, RbSteps) = {}) =>
              /\ host[s].active = "orig"
              /\ host[s].inactive # "drbd"

C28_Witness ==
    /\ pc["secondary"] = "raised"
    /\ Failed("secondary", FwdSteps) = {"T5"}
    /\ Failed("secondary", RbSteps) = {}
    /\ host["secondary"].active = "orig"
    /\ host["secondary"].inactive = "none"
    /\ pc["primary"] = "Sdown"
    /\ host["primary"].active = "orig"


(***************************************************************************)
(* The VM suspended by stop().                                             *)
(***************************************************************************)
\* C29: when stop() has ended, normally or by raising, after it suspended the
\* VM, it has issued the resume of the VM, and the VM is not paused when that
\* resume succeeded.
C29_VmResumedWhenStopEnds ==
    \A s \in Sessions :
        (pc[s] \in {"stopped", "stop_raised"} /\ "Ssuspend" \in Completed(s)) =>
            /\ "Sresumevm" \in Range(Issued(s, StopSteps))
            /\ "Sresumevm" \in Completed(s) => host[s].vm # "paused"


(***************************************************************************)
(* Hypervisor (igvm/balance/models.py): the list of the VMs assigned to    *)
(* the hypervisor is queried from the inventory on the first call and kept *)
(* in self._vms; the free memory comes from libvirt or, with fast=True,    *)
(* from the inventory.                                                     *)
(***************************************************************************)
MaxCalls == 3

VmNames == {"vm1", "vm2"}

\* The order in which the inventory lists the VMs.
VmOrder == <<"vm1", "vm2">>

\* The inventory attribute `memory` (MiB) of the hypervisor and of the VMs.
InventoryMemory == [hv |-> 8192, vm1 |-> 1024, vm2 |-> 2048]

\* sc.query(servertype='vm', xen_host=self.hostname), when nothing fails.
QueryResult(assigned) == SelectSeq(VmOrder, LAMBDA v : v \in assigned)

\* What libvirt answers to free_vm_memory(): a number of MiB, or an error.
LibvirtAnswers ==
    {[ok |-> TRUE, mib |-> m] : m \in {0, 4096}} \cup {[ok |-> FALSE, mib |-> 0]}

\* self._vms after the body of get_vms() and whether the body raised: the
\* list is set to [] before the query; the query yields `k` VMs and then
\* fails if `fail`, else it yields all of them.
FetchVms(h, k, fail) ==
    IF h.cached
    THEN [vms |-> h.vms, raised |-> FALSE]
    ELSE [vms |-> SubSeq(QueryResult(h.assigned), 1, k), raised |-> fail]

\* The outcomes the inventory query can have for the object h.
QueryOutcome(h, k, fail) ==
    /\ k \in 0..Len(QueryResult(h.assigned))
    /\ h.cached => (k = 0 /\ ~fail)
    /\ (~h.cached /\ ~fail) => k = Len(QueryResult(h.assigned))

RECURSIVE SumMemory(_)
SumMemory(q) == IF q = <<>> THEN 0 ELSE InventoryMemory[Head(q)] + SumMemory(Tail(q))

HypResult(op, fast, raised, list, value, lv) ==
    [op |-> op, fast |-> fast, raised |-> raised,
     list |-> IF raised THEN <<>> ELSE list,
     value |-> IF raised THEN 0 ELSE value, libvirt |-> lv]

Hypervisor_get_vms ==
    /\ hyp.pc = "alive"
    /\ Len(hyp.calls) < MaxCalls
    /\ \E k \in 0..Cardinality(VmNames), fail \in BOOLEAN :
        /\ QueryOutcome(hyp, k, fail)
        /\ LET r == FetchVms(hyp, k, fail)
           IN hyp' = [hyp EXCEPT
                  !.cached = TRUE,
                  !.vms = r.vms,
                  !.calls = Append(@, HypResult("get_vms", FALSE, r.raised, r.vms, 0,
                                                [ok |-> TRUE, mib |-> 0]))]
    /\ UNCHANGED rest_hyp

\* fast=True: the inventory memory of the hypervisor minus the memory of the
\* VMs of get_vms(); `readsOk` is whether the attribute reads succeed.
get_memory_free_fast ==
    /\ hyp.pc = "alive"
    /\ Len(hyp.calls) < MaxCalls
    /\ \E k \in 0..Cardinality(VmNames), fail \in BOOLEAN, readsOk \in BOOLEAN :
        /\ QueryOutcome(hyp, k, fail)
        /\ fail => readsOk
        /\ LET r == FetchVms(hyp, k, fail)
           IN hyp' = [hyp EXCEPT
                  !.cached = TRUE,
                  !.vms = r.vms,
                  !.calls = Append(@, HypResult("get_memory_free", TRUE,
                                                r.raised \/ ~readsOk, <<>>,
                                                InventoryMemory["hv"] - SumMemory(r.vms),
                                                [ok |-> TRUE, mib |-> 0]))]
    /\ UNCHANGED rest_hyp

\* fast=False: float(ighv.free_vm_memory()); an error of libvirt leaves the
\* method as an exception.
get_memory_free_libvirt ==
    /\ hyp.pc = "alive"
    /\ Len(hyp.calls) < MaxCalls
    /\ \E lv \in LibvirtAnswers :
        hyp' = [hyp EXCEPT
            !.calls = Append(@, HypResult("get_memory_free", FALSE, ~lv.ok, <<>>,
                                          lv.mib, lv))]
    /\ UNCHANGED rest_hyp

Hypervisor_get_memory_free == get_memory_free_fast \/ get_memory_free_libvirt

\* Hypervisor.__init__: self._vms is None.
InitHyp ==
    /\ DrbdIdle
    /\ IdleExcept("hyp")
    /\ \E a \in SUBSET VmNames :
          hyp = [pc |-> "alive", assigned |-> a, cached |-> FALSE, vms |-> <<>>,
                 calls |-> <<>>]

NextHyp == Hypervisor_get_vms \/ Hypervisor_get_memory_free

SpecHyp == InitHyp /\ [][NextHyp]_vars

HypCalls(op) == {i \in 1..Len(hyp.calls) : hyp.calls[i].op = op}

\* C31: every call of get_vms() either raises or returns the complete list
\* of the VMs assigned to the hypervisor, also when an earlier call failed
\* while the inventory was queried.
C31_CompleteListOrRaise ==
    \A i \in HypCalls("get_vms") :
        ~hyp.calls[i].raised => Range(hyp.calls[i].list) = hyp.assigned


\* C32: get_memory_free() without fast returns the free VM memory in MiB that
\* libvirt reports, and -1 when the libvirt query fails; with fast=True a
\* call that returns gives the inventory memory of the hypervisor minus the
\* sum of the memory of all VMs assigned to it.
C32_MemoryFree ==
    \A i \in HypCalls("get_memory_free") :
        LET c == hyp.calls[i] IN
        IF c.fast
        THEN ~c.raised =>
                c.value = InventoryMemory["hv"]
                            - SumMemory(QueryResult(hyp.assigned))
        ELSE /\ ~c.raised
             /\ c.value = (IF c.libvirt.ok THEN c.libvirt.mib ELSE -1)

====
